---- MODULE Spec2Model ----
(***************************************************************************)
(* Model of the whats-up-doc healthcare-facility routing service.          *)
(*                                                                         *)
(* The repository holds three builds of the HTTP backend                   *)
(*   "p003"  src/unnamed/part_003   single-pass radius expansion           *)
(*   "p004"  src/unnamed/part_004   specialty pass / general pass,         *)
(*                                  emergency fallback, MIN_RESULTS        *)
(*   "srv"   src/backend/server.js  strict/relaxed pass per radius,        *)
(*                                  geocoder, three-strategy PIN lookup    *)
(* and the browser client (src/unnamed/part_010, part_011, part_009).      *)
(* Every handler is modelled from its own source; the variable `build`     *)
(* says which backend is deployed.                                         *)
(*                                                                         *)
(* Units: distances in metres (distance_km is kept in metres too, so       *)
(* 5.00 km = 5000), data_quality_norm in hundredths, latitude and          *)
(* longitude in tenths of a degree.                                        *)
(***************************************************************************)
EXTENDS Integers, Sequences, FiniteSets, TLC

VARIABLES
  hospitals,   \* rows of the hospitals table (the facility store)
  build,       \* which backend build is deployed
  srv,         \* the in-flight backend request (position of its handler)
  resp,        \* the last HTTP response of the backend
  req,         \* the request being served / last served
  nq,          \* pool.query calls issued for the in-flight / last request
  via,         \* history: the query that produced the rows of the last response
  tried,       \* history: the PIN strategies the in-flight / last lookup has tried
  cls,         \* the classifier: its deployed service and the assess() call in flight
  assessment,  \* the Assessment the last assess() call returned
  fetched,     \* requests the last assess() call sent to the external classifier
  ui           \* the React state of AppWithSymptoms and the position of its handler

vars == <<hospitals, build, srv, req, resp, nq, via, tried, cls, assessment, fetched, ui>>

frontend == <<cls, assessment, fetched, ui>>

backend == <<hospitals, build, srv, req, resp, nq, via, tried>>

NULL == "NULL"

Builds == {"p003", "p004", "srv"}

(***************************************************************************)
(* Bounds of the model.                                                    *)
(***************************************************************************)
MaxFacilities == 3      \* rows in the hospitals table

MaxSearches == 1        \* submissions of the search form in one behaviour

(***************************************************************************)
(* The facility store.  A row's location is a geography point: its         *)
(* latitude (ST_Y), longitude (ST_X) and its ST_Distance in metres from    *)
(* the point of the search request; null marks location IS NULL.           *)
(***************************************************************************)
NoLocation == [null |-> TRUE, lat |-> 0, lng |-> 0, metres |-> 0]

Loc(lat, lng, metres) == [null |-> FALSE, lat |-> lat, lng |-> lng, metres |-> metres]

Row(id, pin, st, di, loc, q, care, em, specs, cat) ==
  [id |-> id, pincode |-> pin, state |-> st, district |-> di, location |-> loc,
   data_quality_norm |-> q, hospital_care_type |-> care,
   emergency_available |-> em, specialties_array |-> specs,
   hospital_category |-> cat]

PIN_560001 == <<"5", "6", "0", "0", "0", "1">>
PIN_560002 == <<"5", "6", "0", "0", "0", "2">>
PIN_400001 == <<"4", "0", "0", "0", "0", "1">>
PIN_110001 == <<"1", "1", "0", "0", "0", "1">>
PIN_110002 == <<"1", "1", "0", "0", "0", "2">>

\* hospital_category values, as sequences of characters
CAT_PUBLIC_GOVERNMENT == <<"P", "u", "b", "l", "i", "c", "/", " ", "G", "o", "v", "e", "r", "n", "m", "e", "n", "t">>

CAT_PRIVATE == <<"P", "r", "i", "v", "a", "t", "e">>

CAT_GOVERNMENT == <<"G", "o", "v", "e", "r", "n", "m", "e", "n", "t">>

CAT_GOVT == <<"G", "o", "v", "t">>

CAT_PUBLIC == <<"P", "u", "b", "l", "i", "c">>

CAT_AYUSH == <<"A", "Y", "U", "S", "H">>

FacilityPool ==
  { Row(1, PIN_560001, "Karnataka", "Bengaluru", Loc(130, 776, 1200), 80,
        "Hospital", TRUE, {"Cardiology"}, CAT_PUBLIC_GOVERNMENT),
    Row(2, PIN_560001, "Karnataka", "Bengaluru", Loc(130, 776, 4996), 50,
        NULL, FALSE, {}, CAT_PRIVATE),
    Row(3, PIN_560001, "Karnataka", "Bengaluru", Loc(130, 777, 7000), 10,
        "Hospital", TRUE, {"Cardiology"}, CAT_AYUSH),
    Row(4, PIN_560001, "Karnataka", "Bengaluru", NoLocation, 90,
        "Hospital", TRUE, {"Cardiology"}, CAT_GOVERNMENT),
    Row(5, PIN_560002, "Karnataka", "Bengaluru", Loc(131, 776, 9000), 60,
        "Nursing Home", FALSE, {"Cardiology"}, CAT_PRIVATE),
    Row(6, PIN_560002, "Karnataka", "Bengaluru", Loc(131, 775, 15000), 70,
        "Hospital", TRUE, {"Cardiology"}, CAT_GOVT),
    Row(7, PIN_560002, "Karnataka", "Bengaluru", Loc(132, 776, 25000), 90,
        "Hospital", TRUE, {"Cardiology"}, CAT_PRIVATE),
    Row(8, PIN_400001, "Maharashtra", "Mumbai", Loc(728, 189, 6000000), 60,
        "Hospital", FALSE, {}, CAT_PRIVATE),
    Row(9, PIN_110001, "Delhi", "New Delhi", NoLocation, 60,
        "Hospital", FALSE, {}, CAT_PRIVATE),
    Row(10, PIN_110002, "Delhi", "New Delhi", Loc(286, 772, 1740000), 60,
        "Health Centre", FALSE, {}, CAT_PUBLIC) }

Stores == { S \in SUBSET FacilityPool : Cardinality(S) <= MaxFacilities }

(***************************************************************************)
(* Helpers: sequences ordered by a key, LIMIT n.                           *)
(***************************************************************************)
RECURSIVE OrderBy(_, _)
\* The rows of S as a sequence in ascending order of key[row]; equal keys
\* come in ascending id (PostgreSQL leaves their order open).
OrderBy(S, key) ==
  IF S = {} THEN <<>>
  ELSE LET m == CHOOSE x \in S :
                  \A y \in S : key[x] < key[y] \/ (key[x] = key[y] /\ x.id <= y.id)
       IN  <<m>> \o OrderBy(S \ {m}, key)

Limit(s, n) == IF Len(s) <= n THEN s ELSE SubSeq(s, 1, n)

Range(s) == { s[i] : i \in 1..Len(s) }

(***************************************************************************)
(* JSON values of a request body.                                          *)
(***************************************************************************)
Undef == [t |-> "undefined", v |-> 0]

Num(n) == [t |-> "number", v |-> n]

Truthy(x) == x.t = "number" /\ x.v # 0

NoList == [present |-> FALSE, list |-> <<>>]

List(s) == [present |-> TRUE, list |-> s]

(***************************************************************************)
(* Severity configuration of the three builds.                             *)
(***************************************************************************)
Levels == {"mild", "moderate", "high", "emergency"}

Config(types, radius, emOnly, hasTypes) ==
  [careTypes |-> types, initialRadius |-> radius, emergencyOnly |-> emOnly,
   hasCareTypes |-> hasTypes]

SEVERITY_CONFIG_p003 ==
  [l \in Levels |->
     CASE l = "mild"      -> Config({"Dispensary/ Poly Clinic", "Health Centre"}, 3, FALSE, TRUE)
       [] l = "moderate"  -> Config({"Hospital", "Clinic"}, 5, FALSE, TRUE)
       [] l = "high"      -> Config({"Hospital", "Medical College / Institute/Hospital"}, 10, FALSE, TRUE)
       [] l = "emergency" -> Config({}, 10, TRUE, FALSE)]

SEVERITY_CONFIG_p004 ==
  [l \in Levels |->
     CASE l = "mild"      -> Config({"Hospital", "Dispensary/ Poly Clinic", "Health Centre", "Clinic"}, 5, FALSE, TRUE)
       [] l = "moderate"  -> Config({"Hospital", "Clinic", "Nursing Home",
                                     "Medical College / Institute/Hospital"}, 8, FALSE, TRUE)
       [] l = "high"      -> Config({"Hospital", "Medical College / Institute/Hospital"}, 12, FALSE, TRUE)
       [] l = "emergency" -> Config({"Hospital", "Medical College / Institute/Hospital"}, 12, TRUE, TRUE)]

SEVERITY_CONFIG_srv ==
  [l \in Levels |->
     CASE l = "mild"      -> Config({"Dispensary/ Poly Clinic", "Health Centre"}, 3, FALSE, TRUE)
       [] l = "moderate"  -> Config({"Hospital", "Clinic"}, 5, FALSE, TRUE)
       [] l = "high"      -> Config({"Hospital", "Medical College / Institute/Hospital"}, 10, FALSE, TRUE)
       [] l = "emergency" -> Config({}, 10, TRUE, FALSE)]

SEVERITY_CONFIG(b) ==
  CASE b = "p003" -> SEVERITY_CONFIG_p003
    [] b = "p004" -> SEVERITY_CONFIG_p004
    [] b = "srv"  -> SEVERITY_CONFIG_srv

RADIUS_STEPS_p003 == <<3, 5, 10, 20>>

RADIUS_STEPS_p004 == <<5, 8, 12, 20>>

RADIUS_STEPS_srv == <<3, 5, 10, 20>>

MIN_RESULTS == 3

LIMIT_ROUTING == 20

\* data_quality_norm >= 0.3 (p003) and >= 0 (p004), in hundredths
QUALITY_MIN_p003 == 30

QUALITY_MIN_p004 == 0

\* const radii = RADIUS_STEPS.filter(r => r >= config.initialRadius)
radii_p003(config) == SelectSeq(RADIUS_STEPS_p003, LAMBDA r : r >= config.initialRadius)

radii_p004(config) == SelectSeq(RADIUS_STEPS_p004, LAMBDA r : r >= config.initialRadius)

RECURSIVE Dedup(_)
\* [...new Set(s)]: first occurrences, in order
Dedup(s) ==
  IF s = <<>> THEN <<>>
  ELSE LET h == Dedup(SubSeq(s, 1, Len(s) - 1))
       IN  IF s[Len(s)] \in Range(h) THEN h ELSE Append(h, s[Len(s)])

\* [...new Set([config.initialRadius, ...RADIUS_STEPS.filter(...), 30, 50])]
uniqueRadii_srv(config) ==
  Dedup(<<config.initialRadius>>
        \o SelectSeq(RADIUS_STEPS_srv, LAMBDA r : r >= config.initialRadius)
        \o <<30, 50>>)

(***************************************************************************)
(* SQL of the routing queries.                                             *)
(***************************************************************************)
\* ST_Y(..) BETWEEN 6.0 AND 37.5 AND ST_X(..) BETWEEN 68.0 AND 97.5
InIndia(lat, lng) == lat >= 60 /\ lat <= 375 /\ lng >= 680 /\ lng <= 975

\* ST_Distance(location, ST_MakePoint($2, $1)::geography) in metres; the rows
\* of the pool carry their distance from a request point of the search area,
\* and from a request point outside the country each of them is 8000 km away
ST_Distance(f) ==
  IF InIndia(req.body.latitude.v, req.body.longitude.v) THEN f.location.metres
  ELSE 8000 * 1000

\* mutant: the radius taken for kilometres again
ST_DWithin_RadiusTimes1000(f, radiusMetres) ==
  ~f.location.null /\ ST_Distance(f) <= radiusMetres * 1000

\* ST_DWithin(location, point, radiusMetres); NULL location is never within
ST_DWithin(f, radiusMetres) == ~f.location.null /\ ST_Distance(f) <= radiusMetres

\* ROUND((ST_Distance(..) / 1000)::numeric, 2): two decimals of a kilometre
RoundKm2(metres) == ((metres + 5) \div 10) * 10

\* (ST_Distance(..) / 1000)::float
FloatKm(metres) == metres

HasSpecialty(f, specialty) == specialty = NULL \/ specialty \in f.specialties_array

\* mutant: ORDER BY ... DESC
ByDistance_Desc == [f \in FacilityPool |-> 0 - f.location.metres]

\* ORDER BY location <-> ST_MakePoint($2, $1)::geography
ByDistance == [f \in FacilityPool |-> f.location.metres]

\* CASE WHEN emergency_available = TRUE THEN 0 ELSE 1 END, location <-> point
ByEmergencyThenDistance ==
  [f \in FacilityPool |->
     (IF f.emergency_available THEN 0 ELSE 100000000) + f.location.metres]

ResultRow(f, km) ==
  [id |-> f.id, hospital_category |-> f.hospital_category,
   hospital_care_type |-> f.hospital_care_type,
   specialties_array |-> f.specialties_array,
   emergency_available |-> f.emergency_available,
   data_quality_norm |-> f.data_quality_norm,
   latitude |-> f.location.lat, longitude |-> f.location.lng,
   distance_km |-> km]

\* result.rows; numeric is TRUE where the query rounds the distance to 2 decimals
Rows(ordered, numeric) ==
  [i \in 1..Len(Limit(ordered, LIMIT_ROUTING)) |->
     ResultRow(ordered[i], IF numeric THEN RoundKm2(ordered[i].location.metres)
                           ELSE FloatKm(ordered[i].location.metres))]

(***************************************************************************)
(* Responses.                                                              *)
(***************************************************************************)
NoResponse == [kind |-> "none", status |-> 0]

Idle == [pc |-> "idle"]

ErrorResponse(kind, status, error) == [kind |-> kind, status |-> status, error |-> error]

\* res.json(..) / res.status(..).json(..): the handler ends
Respond(r, query) == resp' = r /\ via' = query /\ srv' = Idle

\* the handler goes on to its next await
Continue(s) == resp' = resp /\ via' = via /\ srv' = s

\* specialties?.[0] || null  /  specialties ? specialties[0] : null
First(specialties) ==
  IF specialties.present /\ Len(specialties.list) > 0 THEN specialties.list[1] ELSE NULL

(***************************************************************************)
(* POST /api/hospitals/severity-based: validation and dispatch.            *)
(***************************************************************************)
SeverityBodies ==
  [latitude : {Num(130)}, longitude : {Num(776)},
   severityLevel : Levels \cup {"critical", NULL},
   specialties : {NoList, List(<<>>), List(<<"Cardiology">>), List(<<"Neurology">>)}]
  \cup
  [latitude : {Undef}, longitude : {Num(776)}, severityLevel : {"mild"},
   specialties : {NoList}]
  \cup   \* a point outside the country: 51.5, -0.1
  [latitude : {Num(515)}, longitude : {Num(0 - 1)}, severityLevel : {"mild", "emergency"},
   specialties : {NoList}]

SeverityBased(body) ==
  /\ srv.pc = "idle"
  /\ req' = [kind |-> "severity", body |-> body]
  /\ nq' = 0
  /\ IF ~Truthy(body.latitude) \/ ~Truthy(body.longitude) \/ body.severityLevel = NULL
     THEN Respond(ErrorResponse("severity", 400,
                    "latitude, longitude, and severityLevel are required"), "none")
     ELSE IF body.severityLevel \notin Levels
     THEN Respond(ErrorResponse("severity", 400, "Invalid severity level"), "none")
     ELSE /\ resp' = NoResponse
          /\ via' = "none"
          /\ srv' = [pc |-> "query", level |-> body.severityLevel,
                     specialty |-> First(body.specialties),
                     pass |-> IF build = "p004" /\ First(body.specialties) = NULL
                              THEN 2 ELSE 1,
                     ri |-> 1, em |-> "first"]
  /\ UNCHANGED <<hospitals, build, tried>>

SeverityOk(config, rows, radius, filtered) ==
  IF build = "p004"
  THEN [kind |-> "severity", status |-> 200, facilities |-> rows, radiusUsed |-> radius,
        wasExpanded |-> radius > config.initialRadius, specialtyFiltered |-> filtered,
        severityLevel |-> req.body.severityLevel, initialRadius |-> config.initialRadius]
  ELSE [kind |-> "severity", status |-> 200, facilities |-> rows, radiusUsed |-> radius,
        wasExpanded |-> radius > config.initialRadius,
        severityLevel |-> req.body.severityLevel, initialRadius |-> config.initialRadius]

DatabaseError(kind) == ErrorResponse(kind, 500, "Database error")

(***************************************************************************)
(* Build p003: queryWithExpansion, one query per radius.                   *)
(***************************************************************************)
query_p003(config, radiusMetres, specialty) ==
  LET hit == { f \in hospitals :
                 /\ ST_DWithin(f, radiusMetres)
                 /\ config.emergencyOnly => f.emergency_available
                 /\ ~f.location.null
                 /\ f.data_quality_norm >= QUALITY_MIN_p003
                 /\ ~config.emergencyOnly =>
                      (f.hospital_care_type \in config.careTypes
                       \/ f.hospital_care_type = NULL)
                 /\ HasSpecialty(f, specialty) }
  IN  Rows(OrderBy(hit, ByDistance), TRUE)

queryWithExpansion_p003(ok) ==
  /\ srv.pc = "query"
  /\ build = "p003"
  /\ nq' = nq + 1
  /\ LET config == SEVERITY_CONFIG_p003[srv.level]
         uniqueRadii == Dedup(radii_p003(config))
         radius == uniqueRadii[srv.ri]
         rows == query_p003(config, radius * 1000, srv.specialty)
     IN  IF ~ok
         THEN Respond(DatabaseError("severity"), "none")
         ELSE IF Len(rows) > 0
         THEN Respond(SeverityOk(config, rows, radius, FALSE), "query")
         ELSE IF srv.ri < Len(uniqueRadii)
         THEN Continue([srv EXCEPT !.ri = @ + 1])
         ELSE Respond(SeverityOk(config, <<>>, 20, FALSE), "none")
  /\ UNCHANGED <<hospitals, build, req, tried>>

(***************************************************************************)
(* Build p004: queryHospitals and queryWithExpansion.                      *)
(***************************************************************************)
\* the shared WHERE clause of queryHospitals
Select_p004(f, radiusMetres) ==
  /\ ST_DWithin(f, radiusMetres)
  /\ ~f.location.null
  /\ f.data_quality_norm >= QUALITY_MIN_p004

\* SELECT + AND emergency_available = TRUE [AND specialty] ORDER BY distance
emergencyQuery(radiusMetres, specialty) ==
  LET hit == { f \in hospitals :
                 /\ Select_p004(f, radiusMetres)
                 /\ f.emergency_available
                 /\ HasSpecialty(f, specialty) }
  IN  Rows(OrderBy(hit, ByDistance), TRUE)

\* SELECT [AND specialty] ORDER BY emergency first, then distance
fallbackQuery(radiusMetres, specialty) ==
  LET hit == { f \in hospitals :
                 /\ Select_p004(f, radiusMetres)
                 /\ HasSpecialty(f, specialty) }
  IN  Rows(OrderBy(hit, ByEmergencyThenDistance), TRUE)

\* SELECT + AND (care type = ANY(careTypes) OR care type IS NULL) [AND specialty]
regularQuery(config, radiusMetres, specialty) ==
  LET hit == { f \in hospitals :
                 /\ Select_p004(f, radiusMetres)
                 /\ (f.hospital_care_type \in config.careTypes
                     \/ f.hospital_care_type = NULL)
                 /\ HasSpecialty(f, specialty) }
  IN  Rows(OrderBy(hit, ByDistance), TRUE)

\* mutant: the first non-empty list is returned and never flagged
Returned_p004_Unflagged(config, radii, rows, query) ==
  IF Len(rows) > 0
  THEN Respond(SeverityOk(config, rows, radii[srv.ri], FALSE), query)
  ELSE IF srv.ri < Len(radii)
  THEN Continue([srv EXCEPT !.ri = @ + 1, !.em = "first"])
  ELSE IF srv.pass = 1
  THEN Continue([srv EXCEPT !.pass = 2, !.ri = 1, !.em = "first"])
  ELSE Respond(SeverityOk(config, <<>>, 20, FALSE), "none")

\* queryWithExpansion after a queryHospitals call returned `rows`
Returned_p004(config, radii, rows, query) ==
  LET radius == radii[srv.ri]
  IN  IF srv.pass = 1
      THEN IF Len(rows) >= MIN_RESULTS
           THEN Respond(SeverityOk(config, rows, radius, TRUE), query)
           ELSE IF srv.ri < Len(radii)
           THEN Continue([srv EXCEPT !.ri = @ + 1, !.em = "first"])
           ELSE Continue([srv EXCEPT !.pass = 2, !.ri = 1, !.em = "first"])
      ELSE IF Len(rows) > 0
           THEN Respond(SeverityOk(config, rows, radius, FALSE), query)
           ELSE IF srv.ri < Len(radii)
           THEN Continue([srv EXCEPT !.ri = @ + 1, !.em = "first"])
           ELSE Respond(SeverityOk(config, <<>>, 20, FALSE), "none")

\* one pool.query of queryHospitals, called from queryWithExpansion
queryWithExpansion_p004(ok) ==
  /\ srv.pc = "query"
  /\ build = "p004"
  /\ nq' = nq + 1
  /\ LET config == SEVERITY_CONFIG_p004[srv.level]
         radii == radii_p004(config)
         radiusMetres == radii[srv.ri] * 1000
         specialty == IF srv.pass = 1 THEN srv.specialty ELSE NULL
     IN  IF ~ok
         THEN Respond(DatabaseError("severity"), "none")
         ELSE IF config.emergencyOnly /\ srv.em = "first"
         THEN LET r == emergencyQuery(radiusMetres, specialty)
              IN  IF Len(r) >= MIN_RESULTS
                  THEN Returned_p004(config, radii, r, "emergency")
                  ELSE Continue([srv EXCEPT !.em = "fallback"])
         ELSE IF config.emergencyOnly
         THEN Returned_p004(config, radii, fallbackQuery(radiusMetres, specialty), "fallback")
         ELSE Returned_p004(config, radii, regularQuery(config, radiusMetres, specialty),
                            "regular")
  /\ UNCHANGED <<hospitals, build, req, tried>>

(***************************************************************************)
(* Build srv: runQuery and queryWithExpansion.                             *)
(***************************************************************************)
runQuery(ok, radiusMetres, config, specialty, strict) ==
  LET hit == { f \in hospitals :
                 /\ ST_DWithin(f, radiusMetres)
                 /\ ~f.location.null
                 /\ config.emergencyOnly => f.emergency_available
                 /\ (~config.emergencyOnly /\ strict /\ config.hasCareTypes) =>
                      f.hospital_care_type \in config.careTypes
                 /\ HasSpecialty(f, specialty) }
  IN  IF ok THEN Rows(OrderBy(hit, ByDistance), FALSE)
      ELSE <<>>     \* catch (err) { return []; }

\* one runQuery call of the loop: pass 1 strict, pass 2 relaxed
queryWithExpansion_srv(ok) ==
  /\ srv.pc = "query"
  /\ build = "srv"
  /\ nq' = nq + 1
  /\ LET config == SEVERITY_CONFIG_srv[srv.level]
         uniqueRadii == uniqueRadii_srv(config)
         radius == uniqueRadii[srv.ri]
         rows == runQuery(ok, radius * 1000, config, srv.specialty, srv.pass = 1)
     IN  IF Len(rows) > 0
         THEN Respond(SeverityOk(config, rows, radius, FALSE),
                      IF srv.pass = 1 THEN "strict" ELSE "relaxed")
         ELSE IF srv.pass = 1
         THEN Continue([srv EXCEPT !.pass = 2])
         ELSE IF srv.ri < Len(uniqueRadii)
         THEN Continue([srv EXCEPT !.pass = 1, !.ri = @ + 1])
         ELSE Respond(SeverityOk(config, <<>>, 50, FALSE), "none")
  /\ UNCHANGED <<hospitals, build, req, tried>>

(***************************************************************************)
(* The client at rest: no classifier call made, the landing page shown.    *)
(***************************************************************************)
Services == {"AssessmentService", "RuleBasedAssessment"}

\* no assess() call has returned yet
NoAssessment == [assessmentMode |-> "none"]

NoOptions == [clarifyingAnswers |-> <<>>, stage1Cache |-> NULL]

\* a JSON body without any field of the Assessment: {} (undefined severity is
\* written 0)
EmptyObject ==
  [severity |-> 0, severityLevel |-> NULL, specialties |-> NoList,
   isAutoEmergency |-> "undefined", detectedKeywords |-> NoList,
   needsClarification |-> FALSE, clarifyingQuestions |-> <<>>,
   stage1Cache |-> NULL, assessmentMode |-> NULL]

\* history: no fetch of the call has settled
NoOutcome == [kind |-> "none", data |-> EmptyObject]

\* the classifier with no call in flight
NoCall(service) ==
  [pc |-> "idle", service |-> service, text |-> <<>>,
   instant |-> [isEmergency |-> FALSE, keywords |-> <<>>], options |-> NoOptions,
   outcome |-> NoOutcome]

\* the useState initial values of AppWithSymptoms; pc and round place the
\* running handler, alert is the alert() of the last handler, searches counts
\* the submissions of the form
InitialUi ==
  [pc |-> "idle", round |-> 1, searches |-> 0, currentPhase |-> 1, pincode |-> <<>>,
   selectedSymptoms |-> <<>>,
   condition |-> <<>>, assessmentResult |-> NoAssessment, recommendations |-> <<>>,
   searchRadius |-> NULL, expansionMessage |-> NULL,
   showSarkari |-> TRUE, showPrivate |-> TRUE, showAyush |-> TRUE,
   showEmergencyWarning |-> FALSE, emergencyKeywordsDetected |-> <<>>,
   clarifyingQuestions |-> <<>>, clarifyingAnswers |-> <<>>, stage1Cache |-> NULL,
   waitingForAnswers |-> FALSE, loading |-> FALSE, alert |-> NULL]

FrontendAtRest ==
  /\ cls = NoCall("AssessmentService")
  /\ assessment = NoAssessment
  /\ fetched = 0
  /\ ui = InitialUi

BackendAtRest ==
  /\ srv = Idle
  /\ req = [kind |-> "none"]
  /\ resp = NoResponse
  /\ nq = 0
  /\ via = "none"
  /\ tried = <<>>

(***************************************************************************)
(* The severity router on its own.                                         *)
(***************************************************************************)
InitRouter ==
  /\ hospitals \in Stores
  /\ build \in Builds
  /\ BackendAtRest
  /\ FrontendAtRest

NextRouter ==
  \/ \E body \in SeverityBodies : SeverityBased(body) /\ UNCHANGED frontend
  \/ \E ok \in BOOLEAN : queryWithExpansion_p003(ok) /\ UNCHANGED frontend
  \/ \E ok \in BOOLEAN : queryWithExpansion_p004(ok) /\ UNCHANGED frontend
  \/ \E ok \in BOOLEAN : queryWithExpansion_srv(ok) /\ UNCHANGED frontend

SpecRouter == InitRouter /\ [][NextRouter]_vars

(***************************************************************************)
(* Properties of the severity router.                                      *)
(***************************************************************************)
SeverityOk200 == resp.kind = "severity" /\ resp.status = 200

StoreRow(id) == CHOOSE f \in hospitals : f.id = id

NonDecreasing(rows) ==
  \A i \in 1..Len(rows) : \A j \in 1..Len(rows) :
     i < j => rows[i].distance_km <= rows[j].distance_km

\* the initial radius the specification gives each severity level
SpecInitialRadius ==
  [l \in Levels |-> CASE l = "mild" -> 5 [] l = "moderate" -> 8
                      [] l = "high" -> 12 [] l = "emergency" -> 12]

\* C2: whenever a facility with a location and data quality >= 0.3 lies within
\* 20 km of the query point, a 200 response carries a non-empty facility list.
C2_NonEmptyWhenQualifying ==
  (SeverityOk200 /\ build \in {"p004", "srv"} /\ \E f \in hospitals :
                      /\ ~f.location.null
                      /\ ST_Distance(f) <= 20 * 1000
                      /\ f.data_quality_norm >= 30)
    => Len(resp.facilities) > 0

\* C3: in every 200 response radiusUsed is one of 5, 8, 12, 20 and at least the
\* initial radius of the requested level (mild 5, moderate 8, high 12, emergency 12).
C3_RadiusUsedInSteps ==
  (SeverityOk200 /\ build \in {"p004", "srv"}) =>
    /\ resp.radiusUsed \in {5, 8, 12, 20}
    /\ resp.radiusUsed >= SpecInitialRadius[resp.severityLevel]

\* C4: no returned facility has data_quality below 0.3 or a null location.
C4_QualityGate ==
  SeverityOk200 =>
    \A i \in 1..Len(resp.facilities) :
       /\ resp.facilities[i].data_quality_norm >= 30
       /\ ~StoreRow(resp.facilities[i].id).location.null

C6_WithinRadiusUsed ==
  SeverityOk200 =>
    \A i \in 1..Len(resp.facilities) :
       resp.facilities[i].distance_km <= resp.radiusUsed * 1000 + 10

\* a returned facility 4996 m away, reported at 5.00 km with radiusUsed 5
C6_Witness ==
  /\ SeverityOk200
  /\ \E i \in 1..Len(resp.facilities) :
       /\ resp.facilities[i].distance_km = resp.radiusUsed * 1000
       /\ StoreRow(resp.facilities[i].id).location.metres < resp.radiusUsed * 1000

\* C16: a search that found nothing at any radius answers 200 with an empty
\* list and radiusUsed 20, and no 200 answer reports a radius above 20.
C16_ExhaustedAtTwenty ==
  SeverityOk200 =>
    /\ resp.radiusUsed <= 20
    /\ Len(resp.facilities) = 0 => resp.radiusUsed = 20

\* the handler of build p004 answers 200 in this step
Answers_p004 ==
  /\ build = "p004"
  /\ srv.pc = "query"
  /\ srv'.pc = "idle"
  /\ resp'.kind = "severity"
  /\ resp'.status = 200

RadiiOf(level) ==
  IF build = "p003" THEN Dedup(radii_p003(SEVERITY_CONFIG_p003[level]))
  ELSE IF build = "p004" THEN radii_p004(SEVERITY_CONFIG_p004[level])
  ELSE uniqueRadii_srv(SEVERITY_CONFIG_srv[level])

\* C18: a store failure at one radius does not end the search: the request is
\* answered 500 only when the queries at all radii failed, so not before every
\* radius of the level has been queried.
C18_ErrorOnlyWhenAllRadiiFail ==
  (resp.kind = "severity" /\ resp.status = 500) =>
    nq >= Len(RadiiOf(req.body.severityLevel))

\* C21: a severity-based search issues at least 1 and at most 8 facility-store
\* queries before it responds, whatever the level, the specialty and the store.
C21_OneToEightQueries ==
  req.kind = "severity" =>
    /\ nq <= 8
    /\ (srv.pc = "idle" /\ resp.status \in {200, 500}) => nq >= 1

\* the expansion loop goes on to a larger radius in this step
RadiusAdvances == srv.pc = "query" /\ srv'.pc = "query" /\ srv'.ri > srv.ri

\* the handler answers 200 with the list of a pass-1 query in this step
AnswersFromPassOne ==
  /\ srv.pc = "query"
  /\ srv.pass = 1
  /\ srv'.pc = "idle"
  /\ resp'.kind = "severity"
  /\ resp'.status = 200
  /\ Len(resp'.facilities) > 0

\* C22: the router goes on to the next larger radius only after the relaxed
\* pass 2 at the current radius fell short, so no query at a larger radius
\* precedes the relaxed pass at a smaller one; and a pass-1 list is returned
\* only when it has at least MIN_RESULTS facilities (with fewer, pass 2 runs at
\* the same radius).
C22_BothPassesBeforeNextRadius ==
  [][(build = "p004" \/ build = "srv") =>
       /\ RadiusAdvances => srv.pass = 2
       /\ AnswersFromPassOne => Len(resp'.facilities) >= MIN_RESULTS]_vars

\* every emergency-capable facility before every other one, ascending distance
\* inside each group
EmergencyFirst(rows) ==
  \A i \in 1..Len(rows) : \A j \in 1..Len(rows) :
     i < j =>
       /\ rows[j].emergency_available => rows[i].emergency_available
       /\ rows[i].emergency_available = rows[j].emergency_available
            => rows[i].distance_km <= rows[j].distance_km

\* an emergency search answered at a radius within which fewer than
\* MIN_RESULTS emergency-capable facilities lie
EmergencyShort ==
  /\ SeverityOk200
  /\ build \in {"p004", "srv"}
  /\ resp.severityLevel = "emergency"
  /\ Cardinality({ f \in hospitals : /\ ST_DWithin(f, resp.radiusUsed * 1000)
                                     /\ f.emergency_available }) < MIN_RESULTS

\* C23: for an emergency search, when fewer than 3 emergency-capable
\* facilities lie within the radius, the answer is without the
\* emergency_available filter: it holds the facilities within the radius that
\* are not emergency-capable as well (those offering the requested specialty,
\* if one was requested), every emergency-capable facility comes before every
\* other one, and distance ascends inside each group.
C23_EmergencyFallbackList ==
  EmergencyShort =>
    /\ \A f \in hospitals :
         (ST_DWithin(f, resp.radiusUsed * 1000)
            /\ HasSpecialty(f, First(req.body.specialties)))
           => \E i \in 1..Len(resp.facilities) : resp.facilities[i].id = f.id
    /\ EmergencyFirst(resp.facilities)

(***************************************************************************)
(* GET /api/pincode/:pincode.                                              *)
(***************************************************************************)
Digits == {"0", "1", "2", "3", "4", "5", "6", "7", "8", "9"}

\* /^\d{6}$/.test(pincode)
SixDigits(pincode) ==
  Len(pincode) = 6 /\ \A i \in 1..Len(pincode) : pincode[i] \in Digits

\* the :pincode path parameters of the model
Pincodes ==
  {PIN_560001, PIN_400001, PIN_110001, PIN_110002,
   <<"0", "0", "0", "0", "0", "0">>,
   <<"5", "6", "0", "0", "1">>,
   <<"5", "6", "0", "0", "0", "a">>,
   <<"5", "6", "0", "0", "0", "1", "1">>}

ST_Y == [f \in FacilityPool |-> f.location.lat]

ST_X == [f \in FacilityPool |-> f.location.lng]

RECURSIVE Sum(_, _)
Sum(S, key) ==
  IF S = {} THEN 0
  ELSE LET x == CHOOSE y \in S : TRUE IN key[x] + Sum(S \ {x}, key)

\* AVG(key) over the rows of a group, to a tenth of a degree
AVG(S, key) == Sum(S, key) \div Cardinality(S)

\* PERCENTILE_CONT(0.5) WITHIN GROUP (ORDER BY key): the interpolated median
PERCENTILE_CONT_50(S, key) ==
  LET s == OrderBy(S, key)
      n == Len(s)
  IN  IF n % 2 = 1 THEN key[s[(n + 1) \div 2]]
      ELSE (key[s[n \div 2]] + key[s[n \div 2 + 1]]) \div 2

\* GROUP BY [pincode,] state, district: the groups of the selected rows
GroupBy(S) == { [state |-> f.state, district |-> f.district] : f \in S }

GroupRows(S, g) == { f \in S : f.state = g.state /\ f.district = g.district }

\* what the external geocoder can do with one SearchPlaceIndexForText command
GeocoderOutcomes ==
  { [kind |-> "error", lat |-> 0, lng |-> 0],
    [kind |-> "empty", lat |-> 0, lng |-> 0],
    [kind |-> "point", lat |-> 129, lng |-> 775] }

\* mutant: geocodePincode without its catch
geocodePincode_NoCatch(outcome) ==
  IF outcome.kind = "point" THEN outcome
  ELSE IF outcome.kind = "error" THEN [kind |-> "throw", lat |-> 0, lng |-> 0]
  ELSE [kind |-> "null", lat |-> 0, lng |-> 0]

\* geocodePincode: {lat, lng} of the first result, null on no result or error
geocodePincode(outcome) ==
  IF outcome.kind = "point" THEN outcome
  ELSE [kind |-> "null", lat |-> 0, lng |-> 0]

PincodeOk(pincode, lat, lng, state, district, count) ==
  [kind |-> "pincode", status |-> 200, pincode |-> pincode,
   latitude |-> lat, longitude |-> lng, state |-> state, district |-> district,
   hospital_count |-> count]

\* {...rows[0], source} and the literal of strategy 1
PincodeOkFrom(pincode, lat, lng, state, district, count, source) ==
  [kind |-> "pincode", status |-> 200, pincode |-> pincode,
   latitude |-> lat, longitude |-> lng, state |-> state, district |-> district,
   hospital_count |-> count, source |-> source]

PincodeNotFound == ErrorResponse("pincode", 404, "Pincode not found")

ServerError == ErrorResponse("pincode", 500, "Server error")

Attempt(strategy, out) == [strategy |-> strategy, out |-> out]

\* the route handler up to its first await
Pincode(pincode) ==
  /\ srv.pc = "idle"
  /\ req' = [kind |-> "pincode", pincode |-> pincode]
  /\ nq' = 0
  /\ tried' = <<>>
  /\ IF build = "srv" /\ ~SixDigits(pincode)
     THEN Respond(ErrorResponse("pincode", 400, "Invalid pincode. Must be 6 digits."),
                  "none")
     ELSE /\ resp' = NoResponse
          /\ via' = "none"
          /\ srv' = [pc |-> IF build = "srv" THEN "geocode" ELSE "centroid",
                     pincode |-> pincode]
  /\ UNCHANGED <<hospitals, build>>

(***************************************************************************)
(* Builds p003 and p004: one centroid query.                               *)
(***************************************************************************)
Centroid_p003(ok) ==
  /\ srv.pc = "centroid"
  /\ build = "p003"
  /\ nq' = nq + 1
  /\ LET hit == { f \in hospitals : f.pincode = srv.pincode /\ ~f.location.null }
     IN  IF ~ok
         THEN Respond(DatabaseError("pincode"), "none") /\ tried' = tried
         ELSE IF GroupBy(hit) = {}
         THEN /\ Respond(PincodeNotFound, "none")
              /\ tried' = Append(tried, Attempt("db_exact", "none"))
         ELSE /\ \E g \in GroupBy(hit) :
                   Respond(PincodeOk(srv.pincode, AVG(GroupRows(hit, g), ST_Y),
                                     AVG(GroupRows(hit, g), ST_X), g.state, g.district,
                                     Cardinality(GroupRows(hit, g))), "db_exact")
              /\ tried' = Append(tried, Attempt("db_exact", "hit"))
  /\ UNCHANGED <<hospitals, build, req>>

Centroid_p004(ok) ==
  /\ srv.pc = "centroid"
  /\ build = "p004"
  /\ nq' = nq + 1
  /\ LET hit == { f \in hospitals :
                    /\ f.pincode = srv.pincode
                    /\ ~f.location.null
                    /\ InIndia(f.location.lat, f.location.lng) }
     IN  IF ~ok
         THEN Respond(DatabaseError("pincode"), "none") /\ tried' = tried
         ELSE IF GroupBy(hit) = {}
         THEN /\ Respond(PincodeNotFound, "none")
              /\ tried' = Append(tried, Attempt("db_exact", "none"))
         ELSE /\ \E g \in GroupBy(hit) :
                   Respond(PincodeOk(srv.pincode,
                                     PERCENTILE_CONT_50(GroupRows(hit, g), ST_Y),
                                     PERCENTILE_CONT_50(GroupRows(hit, g), ST_X),
                                     g.state, g.district,
                                     Cardinality(GroupRows(hit, g))), "db_exact")
              /\ tried' = Append(tried, Attempt("db_exact", "hit"))
  /\ UNCHANGED <<hospitals, build, req>>

(***************************************************************************)
(* Build srv: AWS Location, then DB exact, then the district centroid.     *)
(***************************************************************************)
\* Strategy 1: const geo = await geocodePincode(pincode)
Strategy1(outcome) ==
  /\ srv.pc = "geocode"
  /\ build = "srv"
  /\ LET geo == geocodePincode(outcome)
     IN  IF geo.kind = "throw"
         THEN /\ Respond(ServerError, "none")
              /\ tried' = Append(tried, Attempt("aws-location", "threw"))
         ELSE IF geo.kind = "point"
         THEN /\ Continue([pc |-> "meta", pincode |-> srv.pincode, geo |-> geo])
              /\ tried' = Append(tried, Attempt("aws-location", "hit"))
         ELSE /\ Continue([pc |-> "exact", pincode |-> srv.pincode])
              /\ tried' = Append(tried, Attempt("aws-location", outcome.kind))
  /\ UNCHANGED <<hospitals, build, req, nq>>

\* Strategy 1, if (geo): the state / district of the PIN, then the response
Strategy1Meta(ok) ==
  /\ srv.pc = "meta"
  /\ build = "srv"
  /\ nq' = nq + 1
  /\ tried' = tried
  /\ LET rows == { f \in hospitals : f.pincode = srv.pincode }
         \* ORDER BY the count DESC LIMIT 1
         top == { g \in GroupBy(rows) :
                    \A h \in GroupBy(rows) :
                       Cardinality(GroupRows(rows, h)) <= Cardinality(GroupRows(rows, g)) }
     IN  IF ~ok
         THEN Respond(ServerError, "none")
         ELSE IF top = {}
         THEN Respond(PincodeOkFrom(srv.pincode, srv.geo.lat, srv.geo.lng, NULL, NULL, 0,
                                    "aws-location"), "aws-location")
         ELSE \E g \in top :
                Respond(PincodeOkFrom(srv.pincode, srv.geo.lat, srv.geo.lng,
                                      g.state, g.district,
                                      Cardinality(GroupRows(rows, g)), "aws-location"),
                        "aws-location")
  /\ UNCHANGED <<hospitals, build, req>>

\* Strategy 2: DB exact pincode
Strategy2(ok) ==
  /\ srv.pc = "exact"
  /\ build = "srv"
  /\ nq' = nq + 1
  /\ LET hit == { f \in hospitals : f.pincode = srv.pincode /\ ~f.location.null }
     IN  IF ~ok
         THEN /\ Respond(ServerError, "none")
              /\ tried' = Append(tried, Attempt("db_exact", "threw"))
         ELSE IF GroupBy(hit) # {}
         THEN /\ \E g \in GroupBy(hit) :
                   Respond(PincodeOkFrom(srv.pincode, AVG(GroupRows(hit, g), ST_Y),
                                         AVG(GroupRows(hit, g), ST_X), g.state,
                                         g.district, Cardinality(GroupRows(hit, g)),
                                         "db_exact"), "db_exact")
              /\ tried' = Append(tried, Attempt("db_exact", "hit"))
         ELSE /\ Continue([pc |-> "distMeta", pincode |-> srv.pincode])
              /\ tried' = Append(tried, Attempt("db_exact", "empty"))
  /\ UNCHANGED <<hospitals, build, req>>

\* Strategy 3: SELECT state, district FROM hospitals WHERE pincode = $1 LIMIT 1
Strategy3Meta(ok) ==
  /\ srv.pc = "distMeta"
  /\ build = "srv"
  /\ nq' = nq + 1
  /\ LET rows == { f \in hospitals : f.pincode = srv.pincode }
     IN  IF ~ok
         THEN /\ Respond(ServerError, "none")
              /\ tried' = Append(tried, Attempt("db_district", "threw"))
         ELSE IF rows # {}
         THEN /\ \E f \in rows :
                   Continue([pc |-> "dist", pincode |-> srv.pincode,
                             state |-> f.state, district |-> f.district])
              /\ tried' = Append(tried, Attempt("db_district", "pending"))
         ELSE /\ Respond(PincodeNotFound, "none")
              /\ tried' = Append(tried, Attempt("db_district", "empty"))
  /\ UNCHANGED <<hospitals, build, req>>

\* Strategy 3: the centroid of the district's located rows
Strategy3(ok) ==
  /\ srv.pc = "dist"
  /\ build = "srv"
  /\ nq' = nq + 1
  /\ LET hit == { f \in hospitals :
                    /\ f.district = srv.district
                    /\ f.state = srv.state
                    /\ ~f.location.null }
         done(out) == [tried EXCEPT ![Len(tried)] = Attempt("db_district", out)]
     IN  IF ~ok
         THEN Respond(ServerError, "none") /\ tried' = done("threw")
         ELSE IF hit # {}
         THEN /\ Respond(PincodeOkFrom(srv.pincode, AVG(hit, ST_Y), AVG(hit, ST_X),
                                       srv.state, srv.district, Cardinality(hit),
                                       "db_district"), "db_district")
              /\ tried' = done("hit")
         ELSE Respond(PincodeNotFound, "none") /\ tried' = done("empty")
  /\ UNCHANGED <<hospitals, build, req>>

(***************************************************************************)
(* The PIN resolver on its own.                                            *)
(***************************************************************************)
NextPincode ==
  \/ \E pincode \in Pincodes : Pincode(pincode) /\ UNCHANGED frontend
  \/ \E ok \in BOOLEAN : Centroid_p003(ok) /\ UNCHANGED frontend
  \/ \E ok \in BOOLEAN : Centroid_p004(ok) /\ UNCHANGED frontend
  \/ \E outcome \in GeocoderOutcomes : Strategy1(outcome) /\ UNCHANGED frontend
  \/ \E ok \in BOOLEAN : Strategy1Meta(ok) /\ UNCHANGED frontend
  \/ \E ok \in BOOLEAN : Strategy2(ok) /\ UNCHANGED frontend
  \/ \E ok \in BOOLEAN : Strategy3Meta(ok) /\ UNCHANGED frontend
  \/ \E ok \in BOOLEAN : Strategy3(ok) /\ UNCHANGED frontend

SpecPincode == InitRouter /\ [][NextPincode]_vars

(***************************************************************************)
(* Properties of the PIN resolver.                                         *)
(***************************************************************************)
PincodeOk200 == resp.kind = "pincode" /\ resp.status = 200

Located(S) == { f \in S : ~f.location.null }

\* C8: every 200 response of the PIN lookup has latitude in [6.0, 37.5] and
\* longitude in [68.0, 97.5], whichever strategy produced it.
C8_WithinBoundingBox ==
  (PincodeOk200 /\ build = "srv") => InIndia(resp.latitude, resp.longitude)

\* the strategies in the order of the chain, and the names the specification
\* gives their source tags
StrategyOrder == <<"aws-location", "db_exact", "db_district">>

SpecSource ==
  [t \in {"aws-location", "db_exact", "db_district"} |->
     CASE t = "aws-location" -> "external_geocode"
       [] t = "db_exact"     -> "local_exact_centroid"
       [] t = "db_district"  -> "local_district_centroid"]

\* the coordinate the named strategy yields for the PIN of the request
ProducedBy(strategy, lat, lng) ==
  LET exact == Located({ f \in hospitals : f.pincode = req.pincode })
      district == Located({ f \in hospitals :
                              \E p \in hospitals :
                                 /\ p.pincode = req.pincode
                                 /\ p.state = f.state
                                 /\ p.district = f.district })
  IN  CASE strategy = "aws-location" ->
             \E o \in GeocoderOutcomes : o.kind = "point" /\ o.lat = lat /\ o.lng = lng
        [] strategy = "db_exact" ->
             \E g \in GroupBy(exact) :
                /\ lat = AVG(GroupRows(exact, g), ST_Y)
                /\ lng = AVG(GroupRows(exact, g), ST_X)
        [] strategy = "db_district" ->
             \E g \in GroupBy(district) :
                /\ lat = AVG(GroupRows(district, g), ST_Y)
                /\ lng = AVG(GroupRows(district, g), ST_X)

C10_NotFoundIffAllFail ==
  (/\ build \in {"srv", "p004"}
   /\ req.kind = "pincode"
   /\ SixDigits(req.pincode)
   /\ resp.kind = "pincode"
   /\ resp.status \in {200, 404})
  => (resp.status = 404 <=>
        /\ ~(Len(tried) > 0 /\ tried[1] = Attempt("aws-location", "hit"))
        /\ \A f \in hospitals :
             (f.pincode = req.pincode /\ ~f.location.null)
               => ~InIndia(f.location.lat, f.location.lng)
        /\ \A p \in hospitals : \A f \in hospitals :
             (/\ p.pincode = req.pincode
              /\ p.state = f.state
              /\ p.district = f.district
              /\ ~f.location.null)
               => ~InIndia(f.location.lat, f.location.lng))

\* the request being served fails the validation of the boundary: a postal
\* code that is not six digits, a level outside the four levels, a latitude or
\* longitude that is missing or outside the box of the country
FailsValidation ==
  \/ /\ req.kind = "pincode"
     /\ build = "srv"
     /\ ~SixDigits(req.pincode)
  \/ /\ req.kind = "severity"
     /\ \/ req.body.severityLevel \notin Levels
        \/ req.body.latitude.t # "number"
        \/ req.body.longitude.t # "number"
        \/ ~InIndia(req.body.latitude.v, req.body.longitude.v)

\* C19: a request that fails the validation of the boundary is answered 400
\* and no geocoder call and no facility-store query is made for it.
C19_InvalidIsRejected ==
  FailsValidation =>
    /\ srv.pc = "idle"
    /\ resp.status = 400
    /\ nq = 0
    /\ tried = <<>>

(***************************************************************************)
(* The symptom classifier of the client (symptomAssessment.js).  Texts,    *)
(* symptom ids and emergency terms are sequences of characters.            *)
(***************************************************************************)
UpperCase == <<"A", "B", "C", "D", "E", "F", "G", "H", "I", "J", "K", "L", "M", "N", "O", "P", "Q", "R", "S", "T", "U", "V", "W", "X", "Y", "Z">>

LowerCase == <<"a", "b", "c", "d", "e", "f", "g", "h", "i", "j", "k", "l", "m", "n", "o", "p", "q", "r", "s", "t", "u", "v", "w", "x", "y", "z">>

\* String.prototype.toLowerCase
toLowerCase(s) ==
  [i \in 1..Len(s) |->
     IF \E k \in 1..Len(UpperCase) : UpperCase[k] = s[i]
     THEN LowerCase[CHOOSE k \in 1..Len(UpperCase) : UpperCase[k] = s[i]]
     ELSE s[i]]

\* String.prototype.includes
includes(s, sub) ==
  \E i \in 0..(Len(s) - Len(sub)) : SubSeq(s, i + 1, i + Len(sub)) = sub

RECURSIVE trim(_)
\* String.prototype.trim
trim(s) ==
  IF s = <<>> THEN s
  ELSE IF s[1] = " " THEN trim(Tail(s))
  ELSE IF s[Len(s)] = " " THEN trim(SubSeq(s, 1, Len(s) - 1))
  ELSE s

RECURSIVE join(_, _)
\* Array.prototype.join
join(parts, sep) ==
  IF parts = <<>> THEN <<>>
  ELSE IF Len(parts) = 1 THEN parts[1]
  ELSE parts[1] \o sep \o join(Tail(parts), sep)

\* Array.prototype.some over a list of terms
some(terms, s) == \E i \in 1..Len(terms) : includes(s, terms[i])

INSTANT_EMERGENCY_TERMS ==
  <<<<"c", "h", "e", "s", "t", " ", "p", "a", "i", "n">>,
   <<"h", "e", "a", "r", "t", " ", "a", "t", "t", "a", "c", "k">>,
   <<"c", "a", "r", "d", "i", "a", "c", " ", "a", "r", "r", "e", "s", "t">>,
   <<"n", "o", "t", " ", "b", "r", "e", "a", "t", "h", "i", "n", "g">>,
   <<"c", "a", "n", "n", "o", "t", " ", "b", "r", "e", "a", "t", "h", "e">>,
   <<"c", "a", "n", "'", "t", " ", "b", "r", "e", "a", "t", "h", "e">>,
   <<"s", "a", "a", "n", "s", " ", "n", "a", "h", "i">>,
   <<"u", "n", "c", "o", "n", "s", "c", "i", "o", "u", "s">>,
   <<"b", "e", "h", "o", "s", "h">>,
   <<"p", "a", "s", "s", "e", "d", " ", "o", "u", "t">>,
   <<"s", "e", "i", "z", "u", "r", "e">>,
   <<"c", "o", "n", "v", "u", "l", "s", "i", "o", "n">>,
   <<"f", "i", "t", "s">>,
   <<"d", "a", "u", "r", "a">>,
   <<"s", "t", "r", "o", "k", "e">>,
   <<"p", "a", "r", "a", "l", "y", "s", "i", "s">>,
   <<"f", "a", "c", "e", " ", "d", "r", "o", "o", "p", "i", "n", "g">>,
   <<"s", "e", "v", "e", "r", "e", " ", "b", "l", "e", "e", "d", "i", "n", "g">>,
   <<"b", "l", "e", "e", "d", "i", "n", "g", " ", "h", "e", "a", "v", "i", "l", "y">>,
   <<"t", "e", "z", " ", "k", "h", "o", "o", "n">>,
   <<"l", "a", "b", "o", "u", "r", " ", "p", "a", "i", "n">>,
   <<"w", "a", "t", "e", "r", " ", "b", "r", "o", "k", "e">>,
   <<"p", "a", "n", "i", " ", "t", "o", "o", "t", " ", "g", "a", "y", "a">>,
   <<"p", "r", "a", "s", "a", "v", " ", "d", "a", "r", "d">>,
   <<"b", "a", "b", "y", " ", "n", "o", "t", " ", "m", "o", "v", "i", "n", "g">>,
   <<"n", "e", "w", "b", "o", "r", "n", " ", "n", "o", "t", " ", "b", "r", "e", "a", "t", "h", "i", "n", "g">>,
   <<"p", "o", "i", "s", "o", "n", "i", "n", "g">>,
   <<"o", "v", "e", "r", "d", "o", "s", "e">>,
   <<"s", "u", "i", "c", "i", "d", "a", "l">>,
   <<"s", "n", "a", "k", "e", " ", "b", "i", "t", "e">>,
   <<"a", "n", "a", "p", "h", "y", "l", "a", "x", "i", "s">>,
   <<"t", "h", "r", "o", "a", "t", " ", "s", "w", "e", "l", "l", "i", "n", "g">>,
   <<"s", "e", "e", "n", "a", " ", "d", "a", "r", "d">>,
   <<"d", "i", "l", " ", "k", "a", " ", "d", "a", "u", "r", "a">>>>

emergencyKeywords ==
  <<<<"c", "h", "e", "s", "t", " ", "p", "a", "i", "n">>,
   <<"h", "e", "a", "r", "t", " ", "a", "t", "t", "a", "c", "k">>,
   <<"c", "a", "r", "d", "i", "a", "c", " ", "a", "r", "r", "e", "s", "t">>,
   <<"h", "e", "a", "r", "t", " ", "p", "a", "i", "n">>,
   <<"b", "r", "e", "a", "t", "h", "l", "e", "s", "s", "n", "e", "s", "s">>,
   <<"c", "a", "n", "'", "t", " ", "b", "r", "e", "a", "t", "h", "e">>,
   <<"c", "a", "n", "n", "o", "t", " ", "b", "r", "e", "a", "t", "h", "e">>,
   <<"d", "i", "f", "f", "i", "c", "u", "l", "t", "y", " ", "b", "r", "e", "a", "t", "h", "i", "n", "g">>,
   <<"s", "h", "o", "r", "t", "n", "e", "s", "s", " ", "o", "f", " ", "b", "r", "e", "a", "t", "h">>,
   <<"g", "a", "s", "p", "i", "n", "g">>,
   <<"c", "h", "o", "k", "i", "n", "g">>,
   <<"s", "u", "f", "f", "o", "c", "a", "t", "i", "n", "g">>,
   <<"s", "e", "v", "e", "r", "e", " ", "b", "l", "e", "e", "d", "i", "n", "g">>,
   <<"h", "e", "a", "v", "y", " ", "b", "l", "e", "e", "d", "i", "n", "g">>,
   <<"b", "l", "e", "e", "d", "i", "n", "g", " ", "h", "e", "a", "v", "i", "l", "y">>,
   <<"b", "l", "o", "o", "d", " ", "l", "o", "s", "s">>,
   <<"h", "e", "m", "o", "r", "r", "h", "a", "g", "e">>,
   <<"b", "l", "e", "e", "d", "i", "n", "g", " ", "p", "r", "o", "f", "u", "s", "e", "l", "y">>,
   <<"s", "t", "r", "o", "k", "e">>,
   <<"p", "a", "r", "a", "l", "y", "s", "i", "s">>,
   <<"f", "a", "c", "e", " ", "d", "r", "o", "o", "p", "i", "n", "g">>,
   <<"a", "r", "m", " ", "w", "e", "a", "k", "n", "e", "s", "s">>,
   <<"s", "p", "e", "e", "c", "h", " ", "d", "i", "f", "f", "i", "c", "u", "l", "t", "y">>,
   <<"l", "o", "s", "s", " ", "o", "f", " ", "c", "o", "n", "s", "c", "i", "o", "u", "s", "n", "e", "s", "s">>,
   <<"u", "n", "c", "o", "n", "s", "c", "i", "o", "u", "s">>,
   <<"p", "a", "s", "s", "e", "d", " ", "o", "u", "t">>,
   <<"f", "a", "i", "n", "t", "e", "d">>,
   <<"c", "o", "l", "l", "a", "p", "s", "e", "d">>,
   <<"s", "e", "i", "z", "u", "r", "e">>,
   <<"c", "o", "n", "v", "u", "l", "s", "i", "o", "n">>,
   <<"f", "i", "t", "t", "i", "n", "g">>,
   <<"s", "e", "v", "e", "r", "e", " ", "i", "n", "j", "u", "r", "y">>,
   <<"m", "a", "j", "o", "r", " ", "a", "c", "c", "i", "d", "e", "n", "t">>,
   <<"h", "e", "a", "d", " ", "i", "n", "j", "u", "r", "y">>,
   <<"s", "e", "v", "e", "r", "e", " ", "t", "r", "a", "u", "m", "a">>,
   <<"b", "r", "o", "k", "e", "n", " ", "b", "o", "n", "e">>,
   <<"f", "r", "a", "c", "t", "u", "r", "e">>,
   <<"s", "e", "v", "e", "r", "e", " ", "b", "u", "r", "n">>,
   <<"p", "o", "i", "s", "o", "n", "i", "n", "g">>,
   <<"o", "v", "e", "r", "d", "o", "s", "e">>,
   <<"s", "u", "i", "c", "i", "d", "e", " ", "a", "t", "t", "e", "m", "p", "t">>,
   <<"s", "e", "v", "e", "r", "e", " ", "a", "l", "l", "e", "r", "g", "i", "c", " ", "r", "e", "a", "c", "t", "i", "o", "n">>,
   <<"a", "n", "a", "p", "h", "y", "l", "a", "x", "i", "s">>,
   <<"s", "e", "v", "e", "r", "e", " ", "p", "a", "i", "n">>,
   <<"u", "n", "b", "e", "a", "r", "a", "b", "l", "e", " ", "p", "a", "i", "n">>>>

symptomOptions ==
  <<[id |-> <<"c", "o", "l", "d">>, category |-> "Respiratory", severity |-> 2],
   [id |-> <<"c", "o", "u", "g", "h">>, category |-> "Respiratory", severity |-> 2],
   [id |-> <<"h", "e", "a", "d", "a", "c", "h", "e">>, category |-> "General", severity |-> 2],
   [id |-> <<"f", "a", "t", "i", "g", "u", "e">>, category |-> "General", severity |-> 2],
   [id |-> <<"s", "o", "r", "e", "_", "t", "h", "r", "o", "a", "t">>, category |-> "Respiratory", severity |-> 2],
   [id |-> <<"s", "k", "i", "n", "_", "r", "a", "s", "h">>, category |-> "Dermatology", severity |-> 3],
   [id |-> <<"m", "i", "n", "o", "r", "_", "c", "u", "t">>, category |-> "General", severity |-> 2],
   [id |-> <<"f", "e", "v", "e", "r", "_", "l", "o", "w">>, category |-> "General", severity |-> 4],
   [id |-> <<"s", "t", "o", "m", "a", "c", "h", "_", "p", "a", "i", "n">>, category |-> "Gastroenterology", severity |-> 5],
   [id |-> <<"v", "o", "m", "i", "t", "i", "n", "g">>, category |-> "Gastroenterology", severity |-> 5],
   [id |-> <<"d", "i", "a", "r", "r", "h", "e", "a">>, category |-> "Gastroenterology", severity |-> 5],
   [id |-> <<"b", "a", "c", "k", "_", "p", "a", "i", "n">>, category |-> "Orthopedics", severity |-> 4],
   [id |-> <<"j", "o", "i", "n", "t", "_", "p", "a", "i", "n">>, category |-> "Orthopedics", severity |-> 4],
   [id |-> <<"e", "a", "r", "_", "p", "a", "i", "n">>, category |-> "ENT", severity |-> 5],
   [id |-> <<"t", "o", "o", "t", "h", "_", "p", "a", "i", "n">>, category |-> "Dental", severity |-> 5],
   [id |-> <<"f", "e", "v", "e", "r", "_", "h", "i", "g", "h">>, category |-> "General", severity |-> 7],
   [id |-> <<"b", "r", "e", "a", "t", "h", "i", "n", "g", "_", "d", "i", "f", "f", "i", "c", "u", "l", "t", "y">>, category |-> "Respiratory", severity |-> 8],
   [id |-> <<"s", "e", "v", "e", "r", "e", "_", "p", "a", "i", "n">>, category |-> "General", severity |-> 7],
   [id |-> <<"b", "l", "e", "e", "d", "i", "n", "g">>, category |-> "General", severity |-> 8],
   [id |-> <<"f", "r", "a", "c", "t", "u", "r", "e">>, category |-> "Orthopedics", severity |-> 7],
   [id |-> <<"b", "u", "r", "n">>, category |-> "General", severity |-> 7],
   [id |-> <<"c", "h", "e", "s", "t", "_", "p", "a", "i", "n">>, category |-> "Cardiology", severity |-> 10],
   [id |-> <<"u", "n", "c", "o", "n", "s", "c", "i", "o", "u", "s">>, category |-> "Emergency", severity |-> 10],
   [id |-> <<"s", "e", "i", "z", "u", "r", "e">>, category |-> "Neurology", severity |-> 10],
   [id |-> <<"s", "t", "r", "o", "k", "e", "_", "s", "y", "m", "p", "t", "o", "m", "s">>, category |-> "Neurology", severity |-> 10],
   [id |-> <<"s", "e", "v", "e", "r", "e", "_", "i", "n", "j", "u", "r", "y">>, category |-> "Emergency", severity |-> 10],
   [id |-> <<"p", "o", "i", "s", "o", "n", "i", "n", "g">>, category |-> "Emergency", severity |-> 10],
   [id |-> <<"s", "e", "v", "e", "r", "e", "_", "a", "l", "l", "e", "r", "g", "i", "c">>, category |-> "Emergency", severity |-> 9]>>

specialtyMap ==
  [c \in {"Respiratory", "Cardiology", "Gastroenterology", "Orthopedics", "Neurology", "Dermatology", "ENT", "Dental", "Emergency", "General"} |->
     CASE c = "Respiratory" -> <<"General Medicine", "Pulmonology", "ENT">>
       [] c = "Cardiology" -> <<"Cardiology", "Emergency Medicine">>
       [] c = "Gastroenterology" -> <<"Gastroenterology", "General Medicine">>
       [] c = "Orthopedics" -> <<"Orthopedics", "General Surgery">>
       [] c = "Neurology" -> <<"Neurology", "Emergency Medicine">>
       [] c = "Dermatology" -> <<"Dermatology", "General Medicine">>
       [] c = "ENT" -> <<"ENT", "General Medicine">>
       [] c = "Dental" -> <<"Dental">>
       [] c = "Emergency" -> <<"Emergency Medicine", "Trauma Care">>
       [] c = "General" -> <<"General Medicine">>]

deptMap ==
  <<[kw |-> <<"c", "h", "e", "s", "t">>, dept |-> "Cardiology"],
   [kw |-> <<"h", "e", "a", "r", "t">>, dept |-> "Cardiology"],
   [kw |-> <<"b", "r", "e", "a", "t", "h", "i", "n", "g">>, dept |-> "Pulmonology"],
   [kw |-> <<"c", "o", "u", "g", "h">>, dept |-> "Pulmonology"],
   [kw |-> <<"s", "t", "o", "m", "a", "c", "h">>, dept |-> "Gastroenterology"],
   [kw |-> <<"a", "b", "d", "o", "m", "e", "n">>, dept |-> "Gastroenterology"],
   [kw |-> <<"h", "e", "a", "d", "a", "c", "h", "e">>, dept |-> "Neurology"],
   [kw |-> <<"h", "e", "a", "d">>, dept |-> "Neurology"],
   [kw |-> <<"s", "k", "i", "n">>, dept |-> "Dermatology"],
   [kw |-> <<"r", "a", "s", "h">>, dept |-> "Dermatology"],
   [kw |-> <<"e", "y", "e">>, dept |-> "Ophthalmology"],
   [kw |-> <<"e", "a", "r">>, dept |-> "ENT"],
   [kw |-> <<"t", "h", "r", "o", "a", "t">>, dept |-> "ENT"],
   [kw |-> <<"j", "o", "i", "n", "t">>, dept |-> "Orthopedics"],
   [kw |-> <<"b", "o", "n", "e">>, dept |-> "Orthopedics"],
   [kw |-> <<"b", "a", "c", "k">>, dept |-> "Orthopedics"],
   [kw |-> <<"c", "h", "i", "l", "d">>, dept |-> "Pediatrics"],
   [kw |-> <<"b", "a", "b", "y">>, dept |-> "Pediatrics"],
   [kw |-> <<"b", "a", "c", "h", "h", "a">>, dept |-> "Pediatrics"],
   [kw |-> <<"p", "r", "e", "g", "n", "a", "n", "t">>, dept |-> "Obstetrics"],
   [kw |-> <<"p", "r", "e", "g", "n", "a", "n", "c", "y">>, dept |-> "Obstetrics"],
   [kw |-> <<"l", "a", "b", "o", "u", "r">>, dept |-> "Obstetrics"],
   [kw |-> <<"p", "e", "r", "i", "o", "d">>, dept |-> "Gynecology"],
   [kw |-> <<"t", "o", "o", "t", "h">>, dept |-> "Dental"],
   [kw |-> <<"u", "r", "i", "n", "e">>, dept |-> "Urology"],
   [kw |-> <<"m", "e", "n", "t", "a", "l">>, dept |-> "Psychiatry"],
   [kw |-> <<"a", "n", "x", "i", "e", "t", "y">>, dept |-> "Psychiatry"]>>

OBSTETRIC_TERMS == <<<<"l", "a", "b", "o", "u", "r">>,
                   <<"p", "r", "a", "s", "a", "v">>,
                   <<"w", "a", "t", "e", "r", " ", "b", "r", "o", "k", "e">>,
                   <<"b", "a", "b", "y", " ", "n", "o", "t", " ", "m", "o", "v", "i", "n", "g">>>>

HIGH_TERMS == <<<<"s", "e", "v", "e", "r", "e">>,
              <<"h", "i", "g", "h", " ", "f", "e", "v", "e", "r">>,
              <<"t", "e", "z", " ", "b", "u", "k", "h", "a", "r">>,
              <<"b", "l", "o", "o", "d">>,
              <<"c", "o", "n", "f", "u", "s", "i", "o", "n">>,
              <<"d", "e", "n", "g", "u", "e">>>>

\* the free-text inputs of the model
Conditions ==
  {<<>>,
   <<" ", " ">>,
   <<"C", "h", "e", "s", "t", " ", "P", "a", "i", "n">>,
   <<"m", "i", "l", "d", " ", "c", "o", "u", "g", "h">>,
   <<"b", "e", "n", "e", "f", "i", "t", "s">>,
   <<"h", "i", "g", "h", " ", "f", "e", "v", "e", "r">>,
   <<"L", "a", "b", "o", "u", "r", " ", "p", "a", "i", "n">>,
   <<"h", "e", "a", "r", "t", " ", "p", "a", "i", "n">>}

\* the symptom selections of the model; nausea is not an id of symptomOptions
SymptomSelections ==
  {<<>>,
   <<<<"c", "o", "u", "g", "h">>>>,
   <<<<"s", "e", "i", "z", "u", "r", "e">>>>,
   <<<<"n", "a", "u", "s", "e", "a">>>>,
   <<<<"f", "e", "v", "e", "r", "_", "l", "o", "w">>, <<"v", "o", "m", "i", "t", "i", "n", "g">>, <<"d", "i", "a", "r", "r", "h", "e", "a">>>>}

\* optional booleans of a JSON answer: "true", "false" or "undefined"
Assessment(severity, level, specialties, auto, keywords, clarify, questions, cache, mode) ==
  [severity |-> severity, severityLevel |-> level, specialties |-> specialties,
   isAutoEmergency |-> auto, detectedKeywords |-> keywords,
   needsClarification |-> clarify, clarifyingQuestions |-> questions,
   stage1Cache |-> cache, assessmentMode |-> mode]

\* instantEmergencyCheck(text)
instantEmergencyCheck(text) ==
  LET lower == toLowerCase(text)
      found == SelectSeq(INSTANT_EMERGENCY_TERMS, LAMBDA k : includes(lower, k))
  IN  [isEmergency |-> Len(found) > 0, keywords |-> found]

\* the combined symptom text of assess()
symptomText(symptomIds, condition) ==
  LET parts == (IF Len(symptomIds) > 0 THEN <<join(symptomIds, <<",", " ">>)>> ELSE <<>>)
               \o (IF trim(condition) # <<>> THEN <<trim(condition)>> ELSE <<>>)
  IN  join(parts, <<".", " ">>)

\* the texts the inputs of the model combine to
ModelTexts ==
  { symptomText(symptomIds, condition) :
      symptomIds \in SymptomSelections, condition \in Conditions }

\* instantEmergencyCheck, evaluated once for each text of the model
instantOf == [text \in ModelTexts |-> instantEmergencyCheck(text)]

\* _fallback(message): the answer to an empty input
fallback ==
  Assessment(3, "mild", <<"General Medicine">>, "false", List(<<>>), FALSE, <<>>, NULL,
             "fallback")

\* mutant: the last matching entry of deptMap wins
clientFallback_LastMatch(text, instant) ==
  LET lower == toLowerCase(text)
      hits == SelectSeq(deptMap, LAMBDA e : includes(lower, e.kw))
      dept == IF hits = <<>> THEN "General Medicine" ELSE hits[Len(hits)].dept
      isHigh == some(HIGH_TERMS, lower)
  IN  IF instant.isEmergency
      THEN Assessment(9, "emergency", <<"Emergency">>,
                      "true", List(instant.keywords), FALSE, <<>>, NULL, "client-fallback")
      ELSE Assessment(IF isHigh THEN 7 ELSE 3, IF isHigh THEN "high" ELSE "mild", <<dept>>,
                      "false", List(<<>>), FALSE, <<>>, NULL, "client-fallback")

\* _clientFallback(symptomText, instant): the external classifier is unreachable
clientFallback(text, instant) ==
  LET lower == toLowerCase(text)
      isObstetric == some(OBSTETRIC_TERMS, lower)
      hits == SelectSeq(deptMap, LAMBDA e : includes(lower, e.kw))
      dept == IF hits = <<>> THEN "General Medicine" ELSE hits[1].dept
      isHigh == some(HIGH_TERMS, lower)
  IN  IF instant.isEmergency
      THEN Assessment(9, "emergency",
                      IF isObstetric THEN <<"Obstetrics", "Emergency">> ELSE <<"Emergency">>,
                      "true", List(instant.keywords), FALSE, <<>>, NULL, "client-fallback")
      ELSE Assessment(IF isHigh THEN 7 ELSE 3, IF isHigh THEN "high" ELSE "mild", <<dept>>,
                      "false", List(<<>>), FALSE, <<>>, NULL, "client-fallback")

\* the answers of the external classifier (POST /api/assess) in the model
ApiAnswer(severity, level, specialties, auto, keywords, clarify, questions, cache) ==
  [severity |-> severity, severityLevel |-> level, specialties |-> specialties,
   isAutoEmergency |-> auto, detectedKeywords |-> keywords,
   needsClarification |-> clarify, clarifyingQuestions |-> questions,
   stage1Cache |-> cache, assessmentMode |-> "bedrock"]

ApiAnswers ==
  { ApiAnswer(3, "mild", NoList, "undefined", NoList, FALSE, <<>>, NULL),
    ApiAnswer(10, "emergency", List(<<"Emergency">>), "true",
              List(<<INSTANT_EMERGENCY_TERMS[1]>>), FALSE, <<>>, NULL),
    ApiAnswer(5, "moderate", List(<<"Cardiology">>), "false", List(<<>>), TRUE,
              <<"q1", "q2">>, "stage1"),
    ApiAnswer(7, "high", List(<<"Cardiology">>), "false", List(<<>>), FALSE, <<>>, NULL) }

\* 200 answers that do not have the shape of an Assessment: {}, a severity
\* outside 1..10, a level that is not the level of the severity, a request for
\* clarification with one question and no cache
MalformedAnswers ==
  { EmptyObject,
    ApiAnswer(11, "emergency", List(<<"Emergency">>), "false", List(<<>>), FALSE, <<>>, NULL),
    ApiAnswer(2, "high", List(<<"Cardiology">>), "false", List(<<>>), FALSE, <<>>, NULL),
    ApiAnswer(5, "moderate", List(<<"Cardiology">>), "false", List(<<>>), TRUE, <<"q1">>, NULL) }

\* how the fetch of assess() settles: a 2xx answer with a JSON object, a 2xx
\* answer on which response.json() or the mapping throws (not JSON, null), a
\* non-2xx answer, a rejected fetch
FetchOutcomes ==
  { [kind |-> k, data |-> d] : k \in {"ok"}, d \in ApiAnswers \cup MalformedAnswers }
  \cup { [kind |-> k, data |-> EmptyObject] : k \in {"bad_json", "not_ok", "network_error"} }

\* the mapping of the backend answer to the shape the page expects
mapResponse(data, instant) ==
  Assessment(data.severity, data.severityLevel,
             IF data.specialties.present THEN data.specialties.list
             ELSE <<"General Medicine">>,
             IF data.isAutoEmergency = "true" \/ instant.isEmergency THEN "true" ELSE "false",
             IF data.detectedKeywords.present /\ Len(data.detectedKeywords.list) > 0
             THEN List(data.detectedKeywords.list) ELSE List(instant.keywords),
             data.needsClarification, data.clarifyingQuestions, data.stage1Cache,
             data.assessmentMode)

\* AssessmentService.assess up to its await: the text, the instant check, the fetch
assess(symptomIds, condition, options) ==
  /\ cls.pc = "idle"
  /\ cls.service = "AssessmentService"
  /\ LET text == symptomText(symptomIds, condition)
     IN  IF trim(text) = <<>>
         THEN /\ assessment' = fallback
              /\ fetched' = 0
              /\ cls' = [cls EXCEPT !.text = text, !.options = options,
                                    !.instant = [isEmergency |-> FALSE, keywords |-> <<>>],
                                    !.outcome = NoOutcome]
         ELSE /\ assessment' = NoAssessment
              /\ fetched' = 1
              /\ cls' = [cls EXCEPT !.pc = "fetch", !.text = text, !.options = options,
                                    !.instant = instantOf[text], !.outcome = NoOutcome]

\* AssessmentService.assess after the fetch settled
assessSettled(outcome) ==
  /\ cls.pc = "fetch"
  /\ cls' = [cls EXCEPT !.pc = "idle", !.outcome = outcome]
  /\ fetched' = fetched
  /\ assessment' = IF outcome.kind = "ok" THEN mapResponse(outcome.data, cls.instant)
                   ELSE clientFallback(cls.text, cls.instant)

(***************************************************************************)
(* RuleBasedAssessment, the earlier classifier of the same file.           *)
(***************************************************************************)
\* _detectEmergencyKeywords(text)
detectEmergencyKeywords(text) ==
  LET lowerText == toLowerCase(text)
      detectedKeywords ==
        SelectSeq(emergencyKeywords, LAMBDA k : includes(lowerText, toLowerCase(k)))
  IN  IF text = <<>> THEN [isEmergency |-> FALSE, keywords |-> <<>>]
      ELSE [isEmergency |-> Len(detectedKeywords) > 0, keywords |-> detectedKeywords]

\* _detectEmergencyKeywords, evaluated once for each free text of the model
detectedIn == [text \in Conditions |-> detectEmergencyKeywords(text)]

\* _getSeverityLevel(severity)
getSeverityLevel(severity) ==
  IF severity >= 9 THEN "emergency"
  ELSE IF severity >= 7 THEN "high"
  ELSE IF severity >= 4 THEN "moderate"
  ELSE "mild"

RECURSIVE flatMap(_)
\* categories.flatMap(cat => specialtyMap[cat] || ['General Medicine'])
flatMap(categories) ==
  IF categories = <<>> THEN <<>>
  ELSE (IF categories[1] \in DOMAIN specialtyMap THEN specialtyMap[categories[1]]
        ELSE <<"General Medicine">>) \o flatMap(Tail(categories))

\* -Infinity, the value of Math.max() without arguments: below every severity
MinusInfinity == 0 - 1

\* Math.max(...values)
Max(S) == IF S = {} THEN MinusInfinity ELSE CHOOSE m \in S : \A n \in S : n <= m

Min(a, b) == IF a <= b THEN a ELSE b

\* RuleBasedAssessment.assess(symptomIds, additionalNotes)
RuleBasedAssess(symptomIds, additionalNotes) ==
  /\ cls.pc = "idle"
  /\ cls.service = "RuleBasedAssessment"
  /\ fetched' = 0
  /\ LET emergencyDetected == detectedIn[additionalNotes]
         selectedSymptoms ==
           SelectSeq(symptomOptions, LAMBDA s : s.id \in Range(symptomIds))
         maxSeverity == Max({ selectedSymptoms[i].severity : i \in 1..Len(selectedSymptoms) })
         adjustedSeverity == IF Len(selectedSymptoms) >= 3 THEN Min(10, maxSeverity + 1)
                             ELSE maxSeverity
         categories == Dedup([i \in 1..Len(selectedSymptoms) |-> selectedSymptoms[i].category])
     IN  /\ cls' = [cls EXCEPT !.text = additionalNotes, !.options = NoOptions,
                               !.instant = emergencyDetected, !.outcome = NoOutcome]
         /\ assessment' =
              IF emergencyDetected.isEmergency
              THEN Assessment(10, "emergency", <<"Emergency Medicine", "Trauma Care">>,
                              "true", List(emergencyDetected.keywords), FALSE, <<>>, NULL,
                              "rule-based")
              ELSE IF Len(symptomIds) = 0
              THEN Assessment(2, "mild", <<"General Medicine">>, "undefined", NoList,
                              FALSE, <<>>, NULL, "rule-based")
              ELSE Assessment(adjustedSeverity, getSeverityLevel(adjustedSeverity),
                              Dedup(flatMap(categories)), "undefined", NoList,
                              FALSE, <<>>, NULL, "rule-based")

(***************************************************************************)
(* The classifier on its own.                                              *)
(***************************************************************************)
AssessOptions == { NoOptions, [clarifyingAnswers |-> <<"a1", "a2">>, stage1Cache |-> "stage1"] }

InitClassifier ==
  /\ hospitals = {}
  /\ build = "srv"
  /\ BackendAtRest
  /\ \E service \in Services : cls = NoCall(service)
  /\ assessment = NoAssessment
  /\ fetched = 0
  /\ ui = InitialUi

NextClassifier ==
  \/ \E symptomIds \in SymptomSelections : \E condition \in Conditions :
       \E options \in AssessOptions :
         assess(symptomIds, condition, options) /\ UNCHANGED <<backend, ui>>
  \/ \E outcome \in FetchOutcomes : assessSettled(outcome) /\ UNCHANGED <<backend, ui>>
  \/ \E symptomIds \in SymptomSelections : \E additionalNotes \in Conditions :
       RuleBasedAssess(symptomIds, additionalNotes) /\ UNCHANGED <<backend, ui>>

SpecClassifier == InitClassifier /\ [][NextClassifier]_vars

(***************************************************************************)
(* Properties of the classifier.                                           *)
(***************************************************************************)
\* the emergency terms configured for the deployed classifier
ConfiguredTerms ==
  IF cls.service = "AssessmentService" THEN INSTANT_EMERGENCY_TERMS ELSE emergencyKeywords

\* the last assess() call has returned an Assessment
Assessed == cls.pc = "idle" /\ assessment # NoAssessment

\* C1: whenever the symptom text contains a configured emergency term as a
\* case-insensitive substring, the returned Assessment has severityLevel
\* emergency and isAutoEmergency true, whatever the external classifier answered.
C1_EmergencyMonotonic ==
  (Assessed /\ some(ConfiguredTerms, toLowerCase(cls.text)))
    => (assessment.severityLevel = "emergency" /\ assessment.isAutoEmergency = "true")

\* the Assessment shape: a severity in 1..10, the level of that severity, a
\* mode, 2 to 5 questions and a cache when clarification is asked for
AssessmentShape(data) ==
  /\ data.severity \in 1..10
  /\ data.severityLevel = getSeverityLevel(data.severity)
  /\ data.assessmentMode # NULL
  /\ data.needsClarification =>
       (Len(data.clarifyingQuestions) \in 2..5 /\ data.stage1Cache # NULL)

\* the external classifier call of the last assess() failed: it was rejected,
\* answered a non-2xx status, or answered a body that is not an Assessment
ExternalCallFailed ==
  /\ cls.service = "AssessmentService"
  /\ fetched = 1
  /\ cls.outcome.kind # "none"
  /\ cls.outcome.kind = "ok" => ~AssessmentShape(cls.outcome.data)

\* C11: whenever the external classifier call of assess() fails (network
\* error, non-2xx status, a response that does not match the Assessment shape),
\* assess() returns the locally computed Assessment with mode client-fallback.
C11_FailureFallsBack ==
  (Assessed /\ ExternalCallFailed) => assessment.assessmentMode = "client-fallback"

\* C13: every Assessment the classifier returns has an integer severity in
\* 1..10 and the severityLevel of the table for that severity (1-3 mild, 4-6
\* moderate, 7-8 high, 9-10 emergency).
C13_LevelOfSeverity ==
  Assessed =>
    /\ assessment.severity \in 1..10
    /\ assessment.severityLevel = getSeverityLevel(assessment.severity)

\* the last Assessment is the mapped answer of the external classifier to a
\* text without an instant emergency term
ExternalBranch ==
  /\ cls.service = "AssessmentService"
  /\ fetched = 1
  /\ cls.outcome.kind = "ok"
  /\ ~cls.instant.isEmergency

\* C15: an Assessment with needsClarification true comes from the external
\* branch and carries 2 to 5 clarifying questions and a non-null stage1Cache;
\* the instant-emergency, rule-based and empty-input branches return
\* needsClarification false, no question and a null cache.
C15_OnlyExternalClarifies ==
  Assessed =>
    /\ assessment.needsClarification =>
         /\ ExternalBranch
         /\ Len(assessment.clarifyingQuestions) \in 2..5
         /\ assessment.stage1Cache # NULL
    /\ ~ExternalBranch =>
         /\ ~assessment.needsClarification
         /\ assessment.clarifyingQuestions = <<>>
         /\ assessment.stage1Cache = NULL

\* the keyword of entry i of the department table occurs in the text
Occurs(i) == includes(toLowerCase(cls.text), deptMap[i].kw)

\* the last Assessment is the rule-based fallback for a text without an
\* emergency term
RuleBasedFallback ==
  /\ Assessed
  /\ assessment.assessmentMode = "client-fallback"
  /\ ~cls.instant.isEmergency

\* C24: the rule-based fallback, for a text without an emergency term, returns
\* as its single specialty the department of the first entry of the department
\* table whose keyword occurs in the lower-cased text, or General Medicine if
\* none occurs; severity 7 and level high if a high-severity term occurs,
\* severity 3 and level mild otherwise; and needsClarification false.
C24_FirstDepartmentWins ==
  RuleBasedFallback =>
    /\ Len(assessment.specialties) = 1
    /\ \/ /\ assessment.specialties[1] = "General Medicine"
          /\ \A i \in 1..Len(deptMap) : ~Occurs(i)
       \/ \E i \in 1..Len(deptMap) :
            /\ Occurs(i)
            /\ \A j \in 1..(i - 1) : ~Occurs(j)
            /\ assessment.specialties[1] = deptMap[i].dept
    /\ IF \E k \in 1..Len(HIGH_TERMS) : includes(toLowerCase(cls.text), HIGH_TERMS[k])
       THEN assessment.severity = 7 /\ assessment.severityLevel = "high"
       ELSE assessment.severity = 3 /\ assessment.severityLevel = "mild"
    /\ ~assessment.needsClarification

\* a fallback for a text in which keywords of two departments occur, the
\* later entry's keyword among them
C24_Witness ==
  /\ RuleBasedFallback
  /\ \E i \in 1..Len(deptMap) : \E j \in 1..Len(deptMap) :
       /\ i < j
       /\ Occurs(i)
       /\ Occurs(j)
       /\ deptMap[i].dept # deptMap[j].dept
       /\ assessment.specialties = <<deptMap[i].dept>>

\* C25: whenever an Assessment has isAutoEmergency true, its detectedKeywords
\* is non-empty and contains every configured emergency term that occurs as a
\* case-insensitive substring of the symptom text, also when the external
\* classifier returned its own keyword list.
C25_KeywordsCoverTheText ==
  (Assessed /\ assessment.isAutoEmergency = "true") =>
    /\ assessment.detectedKeywords.present
    /\ Len(assessment.detectedKeywords.list) > 0
    /\ \A k \in 1..Len(ConfiguredTerms) :
         includes(toLowerCase(cls.text), toLowerCase(ConfiguredTerms[k]))
           => \E i \in 1..Len(assessment.detectedKeywords.list) :
                assessment.detectedKeywords.list[i] = ConfiguredTerms[k]

\* C26: when the symptom text contains an emergency term the classifier
\* short-circuits: no external classifier call is made for that input, and the
\* returned Assessment has severity 10, severityLevel emergency and
\* needsClarification false.
C26_EmergencyShortCircuits ==
  some(ConfiguredTerms, toLowerCase(cls.text)) =>
    /\ cls.pc # "fetch"
    /\ Assessed =>
         /\ fetched = 0
         /\ assessment.severity = 10
         /\ assessment.severityLevel = "emergency"
         /\ ~assessment.needsClarification

(***************************************************************************)
(* POST /api/symptoms/classify of build p004: the proxy to the Python      *)
(* classifier.                                                             *)
(***************************************************************************)
\* statuses the Python backend answers when it does not answer 2xx
UpstreamStatuses == {400, 422, 429, 500, 503, 504}

\* how the fetch of the proxy settles: a 2xx answer with a JSON body, a 2xx
\* answer whose body is not JSON, a non-2xx answer, a rejected fetch
ProxyOutcomes ==
  { [kind |-> "ok", status |-> 200, data |-> d] : d \in ApiAnswers \cup MalformedAnswers }
  \cup { [kind |-> k, status |-> 200, data |-> EmptyObject] : k \in {"bad_json", "network_error"} }
  \cup { [kind |-> "not_ok", status |-> st, data |-> EmptyObject] : st \in UpstreamStatuses }

\* the handler up to its await of fetch; an absent text is written <<>>
Classify(text) ==
  /\ srv.pc = "idle"
  /\ build = "p004"
  /\ req' = [kind |-> "classify", text |-> text]
  /\ nq' = 0
  /\ IF text = <<>>
     THEN Respond(ErrorResponse("classify", 400, "text is required"), "none")
     ELSE /\ resp' = NoResponse
          /\ via' = "none"
          /\ srv' = [pc |-> "proxy"]
  /\ UNCHANGED <<hospitals, build, tried>>

\* the handler after the fetch settled
classifyProxied(outcome) ==
  /\ srv.pc = "proxy"
  /\ IF outcome.kind = "not_ok"
     THEN Respond(ErrorResponse("classify", outcome.status, "Symptom classification failed"),
                  outcome.kind)
     ELSE IF outcome.kind = "ok"
     THEN Respond([kind |-> "classify", status |-> 200, data |-> outcome.data], outcome.kind)
     ELSE Respond(ErrorResponse("classify", 502, "Python backend unavailable"), outcome.kind)
  /\ UNCHANGED <<hospitals, build, req, nq, tried>>

InitClassify ==
  /\ hospitals = {}
  /\ build = "p004"
  /\ BackendAtRest
  /\ FrontendAtRest

NextClassify ==
  \/ \E text \in Conditions : Classify(text) /\ UNCHANGED frontend
  \/ \E outcome \in ProxyOutcomes : classifyProxied(outcome) /\ UNCHANGED frontend

SpecClassify == InitClassify /\ [][NextClassify]_vars

\* the endpoint has answered a request whose call of the external classifier
\* was made
ClassifyAnswered == resp.kind = "classify" /\ srv.pc = "idle" /\ via # "none"

\* C12: POST /symptoms/classify never answers a 5xx status; when the external
\* classifier is unreachable or answers an error, the answer is a 200 carrying
\* a fallback Assessment whose mode is client-fallback.
C12_NeverServerError ==
  ClassifyAnswered =>
    /\ resp.status < 500
    /\ via # "ok" => (resp.status = 200 /\ resp.data.assessmentMode = "client-fallback")

(***************************************************************************)
(* The page AppWithSymptoms: search, clarification, results, filters.      *)
(***************************************************************************)
classifier == <<cls, assessment, fetched>>

\* routingConfig[level].initialRadius of facilityRouting.js
routingConfig ==
  [l \in Levels |->
     [initialRadius |-> CASE l = "mild" -> 3 [] l = "moderate" -> 5
                          [] l = "high" -> 10 [] l = "emergency" -> 10]]

\* getExpansionMessage(fromRadius, toRadius); a null radius is written 0
getExpansionMessage(fromRadius, toRadius) ==
  IF fromRadius = 3 /\ toRadius = 5 THEN "3-5"
  ELSE IF fromRadius = 5 /\ toRadius = 10 THEN "5-10"
  ELSE IF fromRadius = 10 /\ toRadius = 20 THEN "10-20"
  ELSE "none"

\* category.toLowerCase().includes(term), evaluated once for each stored category
categoryIncludes ==
  [category \in { f.hospital_category : f \in FacilityPool },
   term \in { <<"g", "o", "v">>, <<"p", "u", "b", "l", "i", "c">>, <<"g", "o", "v", "e", "r", "n", "m", "e", "n", "t">>, <<"a", "y", "u", "s", "h">> } |->
     includes(toLowerCase(category), term)]

\* (hospital.hospital_category || '').toLowerCase().includes('gov') || ...('public')
isGovernment(category) ==
  \/ categoryIncludes[category, <<"g", "o", "v">>]
  \/ categoryIncludes[category, <<"p", "u", "b", "l", "i", "c">>]

\* the .filter(h => h.latitude && h.longitude).map(...) of fetchHospitals
transformedFacilities(facilities) ==
  LET located == SelectSeq(facilities, LAMBDA h : h.latitude # 0 /\ h.longitude # 0)
  IN  [i \in 1..Len(located) |->
         [id |-> located[i].id,
          facility_type |-> IF located[i].hospital_care_type = NULL THEN "Hospital"
                            ELSE located[i].hospital_care_type,
          category |-> located[i].hospital_category,
          isGovernment |-> isGovernment(located[i].hospital_category),
          latitude |-> located[i].latitude,
          longitude |-> located[i].longitude,
          distance_km |-> located[i].distance_km,
          emergency_available |-> located[i].emergency_available]]

\* mutant: the comparator without its government rule
compare_DistanceOnly(a, b) == a.distance_km - b.distance_km

\* the comparator of filtered.sort
compare(a, b) ==
  LET aIsGov == a.isGovernment \/ categoryIncludes[a.category, <<"g", "o", "v", "e", "r", "n", "m", "e", "n", "t">>]
      bIsGov == b.isGovernment \/ categoryIncludes[b.category, <<"g", "o", "v", "e", "r", "n", "m", "e", "n", "t">>]
  IN  IF aIsGov /\ ~bIsGov THEN 0 - 1
      ELSE IF ~aIsGov /\ bIsGov THEN 1
      ELSE a.distance_km - b.distance_km

RECURSIVE sort(_)
\* Array.prototype.sort with compare: stable
sort(s) ==
  IF s = <<>> THEN <<>>
  ELSE LET rest == sort(SubSeq(s, 1, Len(s) - 1))
           x == s[Len(s)]
           k == Cardinality({ i \in 1..Len(rest) : compare(rest[i], x) <= 0 })
       IN  SubSeq(rest, 1, k) \o <<x>> \o SubSeq(rest, k + 1, Len(rest))

\* getFilteredAndPrioritizedHospitals(hospitals, severityLevel)
getFilteredAndPrioritizedHospitals(list, severityLevel) ==
  LET keep(hospital) ==
        LET isGov == hospital.isGovernment
                     \/ categoryIncludes[hospital.category, <<"g", "o", "v", "e", "r", "n", "m", "e", "n", "t">>]
            isAyush == categoryIncludes[hospital.category, <<"a", "y", "u", "s", "h">>]
            isPrivate == ~isGov /\ ~isAyush
        IN  /\ ~(isGov /\ ~ui.showSarkari)
            /\ ~(isPrivate /\ ~ui.showPrivate)
            /\ ~(isAyush /\ ~ui.showAyush)
      filtered == SelectSeq(list, keep)
  IN  IF severityLevel = "mild" \/ severityLevel = "moderate" THEN sort(filtered)
      ELSE filtered

\* the catch / finally of the handler that is running
Caught(status) ==
  [ui EXCEPT !.alert = IF ui.round = 2 THEN "Something went wrong. Please try again."
                       ELSE IF status = 404
                       THEN "Pincode not found. Please try a different pincode."
                       ELSE IF status = 500
                       THEN "Database connection error. Please ensure the backend server is running."
                       ELSE "Unable to find hospitals. Please try again.",
             !.loading = FALSE, !.pc = "idle"]

\* handleSearch up to its await of assessmentService.assess (round 1)
handleSearch(pincode, selectedSymptoms, condition) ==
  /\ ui.pc = "idle"
  /\ ui.currentPhase = 1
  /\ LET typed == [ui EXCEPT !.pincode = pincode, !.selectedSymptoms = selectedSymptoms,
                             !.condition = condition, !.alert = NULL,
                             !.searches = @ + 1]
     IN  IF Len(pincode) # 6
         THEN /\ ui' = [typed EXCEPT !.alert = "Please enter a valid 6-digit pincode"]
              /\ UNCHANGED classifier
         ELSE IF Len(selectedSymptoms) = 0 /\ trim(condition) = <<>>
         THEN /\ ui' = [typed EXCEPT
                          !.alert = "Please select symptoms or describe your condition"]
              /\ UNCHANGED classifier
         ELSE /\ ui' = [typed EXCEPT !.loading = TRUE, !.recommendations = <<>>,
                                     !.expansionMessage = NULL,
                                     !.waitingForAnswers = FALSE,
                                     !.pc = "assessing", !.round = 1]
              /\ IF cls.service = "AssessmentService"
                 THEN assess(selectedSymptoms, condition, NoOptions)
                 ELSE RuleBasedAssess(selectedSymptoms, condition)
  /\ UNCHANGED backend

\* handleClarifyingSubmit up to its await of assessmentService.assess (round 2)
handleClarifyingSubmit(skip) ==
  /\ ui.pc = "idle"
  /\ ui.waitingForAnswers
  /\ LET answers == IF skip THEN [i \in 1..Len(ui.clarifyingQuestions) |-> "Not provided"]
                    ELSE ui.clarifyingAnswers
     IN  /\ ui' = [ui EXCEPT !.loading = TRUE, !.waitingForAnswers = FALSE,
                             !.pc = "assessing", !.round = 2, !.alert = NULL]
         /\ IF cls.service = "AssessmentService"
            THEN assess(ui.selectedSymptoms, ui.condition,
                        [clarifyingAnswers |-> answers, stage1Cache |-> ui.stage1Cache])
            ELSE RuleBasedAssess(ui.selectedSymptoms, ui.condition)
  /\ UNCHANGED backend

\* mutant: the search is posted at once, with the point of the last lookup
fetchHospitals_SkipLookup(page) ==
  /\ ui' = [page EXCEPT !.pc = "searching"]
  /\ SeverityBased([latitude |-> Num(130), longitude |-> Num(776),
                    severityLevel |-> page.assessmentResult.severityLevel,
                    specialties |-> List(page.assessmentResult.specialties)])

\* fetchHospitals up to its first await: GET /api/pincode/:pincode
fetchHospitals(page) ==
  /\ ui' = [page EXCEPT !.pc = "locating"]
  /\ Pincode(page.pincode)

\* the handler after assess() returned: the warning, clarification or the search
assessed ==
  /\ ui.pc = "assessing"
  /\ cls.pc = "idle"
  /\ LET isAuto == assessment.isAutoEmergency = "true"
         warned == [ui EXCEPT !.assessmentResult = assessment,
                              !.showEmergencyWarning = IF isAuto THEN TRUE ELSE @,
                              !.emergencyKeywordsDetected =
                                 IF ~isAuto THEN @
                                 ELSE IF assessment.detectedKeywords.present
                                 THEN assessment.detectedKeywords.list ELSE <<>>]
     IN  IF ui.round = 2
         THEN fetchHospitals([ui EXCEPT !.assessmentResult = assessment,
                                        !.clarifyingQuestions = <<>>,
                                        !.stage1Cache = NULL])
         ELSE IF assessment.needsClarification /\ Len(assessment.clarifyingQuestions) > 0
         THEN /\ ui' = [warned EXCEPT
                          !.clarifyingQuestions = assessment.clarifyingQuestions,
                          !.clarifyingAnswers =
                             [i \in 1..Len(assessment.clarifyingQuestions) |-> ""],
                          !.stage1Cache = assessment.stage1Cache,
                          !.waitingForAnswers = TRUE, !.loading = FALSE, !.pc = "idle"]
              /\ UNCHANGED backend
         ELSE fetchHospitals(warned)
  /\ UNCHANGED classifier

\* fetchHospitals after the PIN lookup answered: POST /api/hospitals/severity-based
located ==
  /\ ui.pc = "locating"
  /\ srv.pc = "idle"
  /\ IF resp.status # 200
     THEN ui' = Caught(resp.status) /\ UNCHANGED backend
     ELSE IF resp.latitude = 0
     THEN /\ ui' = [ui EXCEPT !.alert = "Pincode not found in our database. Please try a different pincode.",
                              !.loading = FALSE, !.pc = "idle"]
          /\ UNCHANGED backend
     ELSE /\ ui' = [ui EXCEPT !.pc = "searching"]
          /\ SeverityBased([latitude |-> Num(resp.latitude),
                            longitude |-> Num(resp.longitude),
                            severityLevel |-> ui.assessmentResult.severityLevel,
                            specialties |-> List(ui.assessmentResult.specialties)])
  /\ UNCHANGED classifier

\* fetchHospitals after the search answered: the results page
searched ==
  /\ ui.pc = "searching"
  /\ srv.pc = "idle"
  /\ IF resp.status # 200
     THEN ui' = Caught(resp.status)
     ELSE LET list == transformedFacilities(resp.facilities)
              config == routingConfig[ui.assessmentResult.severityLevel]
          IN  ui' = [ui EXCEPT
                       !.recommendations = list,
                       !.searchRadius = resp.radiusUsed,
                       !.expansionMessage =
                          IF Len(list) = 0 THEN getExpansionMessage(20, 0)
                          ELSE IF resp.wasExpanded
                          THEN getExpansionMessage(config.initialRadius, resp.radiusUsed)
                          ELSE NULL,
                       !.currentPhase = 2, !.loading = FALSE, !.pc = "idle"]
  /\ UNCHANGED <<backend, classifier>>

\* the three filter checkboxes of the results page
setShowSarkari(checked) ==
  /\ ui.currentPhase = 2
  /\ ui' = [ui EXCEPT !.showSarkari = checked]
  /\ UNCHANGED <<backend, classifier>>

setShowPrivate(checked) ==
  /\ ui.currentPhase = 2
  /\ ui' = [ui EXCEPT !.showPrivate = checked]
  /\ UNCHANGED <<backend, classifier>>

setShowAyush(checked) ==
  /\ ui.currentPhase = 2
  /\ ui' = [ui EXCEPT !.showAyush = checked]
  /\ UNCHANGED <<backend, classifier>>

\* handleConditionChange: the symptom input of the landing page, which stays
\* enabled while the clarifying questions are shown
handleConditionChange(value) ==
  /\ ui.currentPhase = 1
  /\ ui' = [ui EXCEPT !.condition = value]
  /\ UNCHANGED <<backend, classifier>>

\* mutant: the back button clears the stored assessment and stays on the page
handleBackToPhase1_Stay ==
  /\ ui.currentPhase = 2
  /\ ui' = [ui EXCEPT !.recommendations = <<>>,
                      !.expansionMessage = NULL, !.assessmentResult = NoAssessment,
                      !.waitingForAnswers = FALSE, !.clarifyingQuestions = <<>>,
                      !.stage1Cache = NULL]
  /\ UNCHANGED <<backend, classifier>>

\* handleBackToPhase1: the back button of the results page
handleBackToPhase1 ==
  /\ ui.currentPhase = 2
  /\ ui' = [ui EXCEPT !.currentPhase = 1, !.recommendations = <<>>,
                      !.expansionMessage = NULL, !.assessmentResult = NoAssessment,
                      !.waitingForAnswers = FALSE, !.clarifyingQuestions = <<>>,
                      !.stage1Cache = NULL]
  /\ UNCHANGED <<backend, classifier>>

(***************************************************************************)
(* The page with the classifier and a backend behind it.                   *)
(***************************************************************************)
\* the stores, PIN codes and symptom inputs of the page model
ClientStores == { S \in Stores : \A f \in S : f.id \in {2, 3, 4, 6} }

ClientPincodes == { PIN_560001, <<"5", "6", "0", "0", "1">> }

ClientConditions == { c \in Conditions : Len(c) = 0 \/ Len(c) = 10 }

ClientSelections == { s \in SymptomSelections : Len(s) = 0 \/ Len(s) = 3 }

InitClient ==
  /\ hospitals \in ClientStores
  /\ build \in Builds
  /\ BackendAtRest
  /\ \E service \in Services : cls = NoCall(service)
  /\ assessment = NoAssessment
  /\ fetched = 0
  /\ ui = InitialUi

NextClient ==
  \/ \E pincode \in ClientPincodes : \E selectedSymptoms \in ClientSelections :
       \E condition \in ClientConditions :
         ui.searches < MaxSearches /\ handleSearch(pincode, selectedSymptoms, condition)
  \/ \E skip \in BOOLEAN : handleClarifyingSubmit(skip)
  \/ \E outcome \in FetchOutcomes : assessSettled(outcome) /\ UNCHANGED <<backend, ui>>
  \/ assessed
  \/ located
  \/ searched
  \/ \E checked \in BOOLEAN : setShowSarkari(checked)
  \/ \E checked \in BOOLEAN : setShowPrivate(checked)
  \/ \E checked \in BOOLEAN : setShowAyush(checked)
  \/ \E ok \in BOOLEAN : Centroid_p003(ok) /\ UNCHANGED frontend
  \/ \E ok \in BOOLEAN : Centroid_p004(ok) /\ UNCHANGED frontend
  \/ \E outcome \in GeocoderOutcomes : Strategy1(outcome) /\ UNCHANGED frontend
  \/ \E ok \in BOOLEAN : Strategy1Meta(ok) /\ UNCHANGED frontend
  \/ \E ok \in BOOLEAN : Strategy2(ok) /\ UNCHANGED frontend
  \/ \E ok \in BOOLEAN : Strategy3Meta(ok) /\ UNCHANGED frontend
  \/ \E ok \in BOOLEAN : Strategy3(ok) /\ UNCHANGED frontend
  \/ \E ok \in BOOLEAN : queryWithExpansion_p003(ok) /\ UNCHANGED frontend
  \/ \E ok \in BOOLEAN : queryWithExpansion_p004(ok) /\ UNCHANGED frontend
  \/ \E ok \in BOOLEAN : queryWithExpansion_srv(ok) /\ UNCHANGED frontend

SpecClient == InitClient /\ [][NextClient]_vars

(***************************************************************************)
(* The page over several searches: the symptom input is edited, the back   *)
(* button returns to the landing page, the deployed classifier answers.    *)
(***************************************************************************)
MaxPageSearches == 2

PageStores == { S \in Stores : \A f \in S : f.id \in {2, 4} }

PageConditions == { c \in Conditions : Len(c) = 10 /\ c[1] \in {"C", "m"} }

\* the call fails, or the classifier answers mild, or it asks for clarification
PageOutcomes ==
  { o \in FetchOutcomes :
      \/ o.kind = "network_error"
      \/ o.kind = "ok" /\ o.data \in ApiAnswers /\ o.data.severityLevel \in {"mild", "moderate"} }

InitPage ==
  /\ hospitals \in PageStores
  /\ build \in Builds
  /\ BackendAtRest
  /\ FrontendAtRest

NextPage ==
  \/ \E value \in PageConditions : handleConditionChange(value)
  \/ ui.searches < MaxPageSearches /\ handleSearch(PIN_560001, ui.selectedSymptoms, ui.condition)
  \/ \E skip \in BOOLEAN : handleClarifyingSubmit(skip)
  \/ \E outcome \in PageOutcomes : assessSettled(outcome) /\ UNCHANGED <<backend, ui>>
  \/ assessed
  \/ located
  \/ searched
  \/ handleBackToPhase1
  \/ \E ok \in BOOLEAN : Centroid_p003(ok) /\ UNCHANGED frontend
  \/ \E ok \in BOOLEAN : Centroid_p004(ok) /\ UNCHANGED frontend
  \/ \E outcome \in GeocoderOutcomes : Strategy1(outcome) /\ UNCHANGED frontend
  \/ \E ok \in BOOLEAN : Strategy1Meta(ok) /\ UNCHANGED frontend
  \/ \E ok \in BOOLEAN : Strategy2(ok) /\ UNCHANGED frontend
  \/ \E ok \in BOOLEAN : Strategy3Meta(ok) /\ UNCHANGED frontend
  \/ \E ok \in BOOLEAN : Strategy3(ok) /\ UNCHANGED frontend
  \/ \E ok \in BOOLEAN : queryWithExpansion_p003(ok) /\ UNCHANGED frontend
  \/ \E ok \in BOOLEAN : queryWithExpansion_p004(ok) /\ UNCHANGED frontend
  \/ \E ok \in BOOLEAN : queryWithExpansion_srv(ok) /\ UNCHANGED frontend

SpecPage == InitPage /\ [][NextPage]_vars

(***************************************************************************)
(* Properties of the results page.                                         *)
(***************************************************************************)
\* the results page is shown
ResultsShown == ui.currentPhase = 2 /\ ui.pc = "idle"

\* the list the page renders
Rendered ==
  getFilteredAndPrioritizedHospitals(ui.recommendations, ui.assessmentResult.severityLevel)

\* government-tagged by the stored category: it contains 'gov' or 'public'
GovernmentTagged(h) == isGovernment(StoreRow(h.id).hospital_category)

\* the place of a facility in the list the router returned
RouterIndex(h) == CHOOSE i \in 1..Len(resp.facilities) : resp.facilities[i].id = h.id

GovernmentFirst(list) ==
  \A i \in 1..Len(list) : \A j \in 1..Len(list) :
     i < j =>
       /\ GovernmentTagged(list[j]) => GovernmentTagged(list[i])
       /\ GovernmentTagged(list[i]) = GovernmentTagged(list[j])
            => list[i].distance_km <= list[j].distance_km

C14_RoundTwoSettles ==
  (ui.round = 2 /\ ui.pc # "assessing") =>
    /\ ~ui.assessmentResult.needsClarification
    /\ ~ui.waitingForAnswers

\* the page posts the severity-based request in this step
SearchSent == req'.kind = "severity" /\ req' # req

\* C20: the severity-based request of a search is sent only after assess() has
\* returned the Assessment the page holds and after the postal-code lookup of
\* the search has answered 200 with a coordinate; the request carries that
\* level and that coordinate.
C20_SearchAfterAssessAndLookup ==
  [][SearchSent =>
       /\ cls.pc = "idle"
       /\ assessment # NoAssessment
       /\ ui.assessmentResult = assessment
       /\ req'.body.severityLevel = assessment.severityLevel
       /\ srv.pc = "idle"
       /\ req.kind = "pincode"
       /\ req.pincode = ui.pincode
       /\ resp.kind = "pincode"
       /\ resp.status = 200
       /\ resp.latitude # 0
       /\ req'.body.latitude = Num(resp.latitude)
       /\ req'.body.longitude = Num(resp.longitude)]_vars

\* a search whose severity-based request is being served
C20_Witness ==
  /\ ui.pc = "searching"
  /\ req.kind = "severity"
  /\ srv.pc = "query"
  /\ req.body.severityLevel = ui.assessmentResult.severityLevel

\* the yellow banner of the results page: an expansion message beside a
\* non-empty list, unless it is the no-facilities text
ExpansionBanner ==
  /\ ui.expansionMessage # NULL
  /\ Len(ui.recommendations) > 0
  /\ ui.expansionMessage # "none"

\* the red banner of the results page: the message beside an empty list
NoFacilitiesBanner ==
  /\ Len(ui.recommendations) = 0
  /\ ui.expansionMessage # NULL

\* C28: whenever a search returns a non-empty facility list at a radius larger
\* than the level's initial radius (wasExpanded true), the results page shows
\* an expansion message for the widened search; the no-facilities message is
\* shown only when the search returned no facility at all.
C28_ExpansionIsExplained ==
  (ResultsShown /\ resp.kind = "severity" /\ resp.status = 200) =>
    /\ (Len(resp.facilities) > 0 /\ resp.wasExpanded) => ExpansionBanner
    /\ (NoFacilitiesBanner /\ ui.expansionMessage = "none") => Len(resp.facilities) = 0

\* the step on which handleClarifyingSubmit sends the round-2 request
RoundTwoSent ==
  /\ ui.pc = "idle"
  /\ ui.waitingForAnswers
  /\ ui'.pc = "assessing"
  /\ ui'.round = 2

\* C27: the round-2 request sent after clarifying questions were shown carries
\* the symptom text of the round-1 request that produced those questions, an
\* answers array with one entry per question (the typed answers, or "Not
\* provided" in every entry when the user skips), and the stage-1 cache that
\* round 1 returned.
C27_RoundTwoRepeatsRoundOne ==
  [][RoundTwoSent =>
       /\ cls'.text = cls.text
       /\ Len(cls'.options.clarifyingAnswers) = Len(assessment.clarifyingQuestions)
       /\ \/ cls'.options.clarifyingAnswers = ui.clarifyingAnswers
          \/ \A i \in 1..Len(assessment.clarifyingQuestions) :
               cls'.options.clarifyingAnswers[i] = "Not provided"
       /\ cls'.options.stage1Cache = assessment.stage1Cache]_vars

\* the warning banner of the landing page is rendered
EmergencyBanner == ui.currentPhase = 1 /\ ui.showEmergencyWarning

\* C29: the life-threatening-emergency banner of the landing page is visible
\* only when the most recent completed assessment was auto-emergency: once a
\* later assessment with isAutoEmergency false has been handled, also after
\* returning to the landing page, the banner is not shown.
C29_BannerFollowsLastAssessment ==
  (EmergencyBanner /\ ui.pc # "assessing") => assessment.isAutoEmergency = "true"

\* C30: over handleSearch, handleClarifyingSubmit, fetchHospitals and
\* handleBackToPhase1 in any order, with any interleaving of their
\* completions, whenever currentPhase is 2 the stored assessmentResult is
\* non-null, so the results page never reads severityLevel of a null assessment.
C30_ResultsPageHasAssessment ==
  ui.currentPhase = 2 => ui.assessmentResult # NoAssessment

\* the results page of a second search, reached after the back button had
\* cleared the assessment of the first
C30_Witness ==
  /\ ui.currentPhase = 2
  /\ ui.searches = 2
  /\ ui.assessmentResult = assessment
  /\ assessment # NoAssessment

====
